---- MODULE Spec2Model ----
(***************************************************************************)
(* Blasteroids game core: GameWorld, GameManager, CollisionManager,         *)
(* AsteroidSpawner, ShipController and the Ship / Bullet / Asteroid         *)
(* entities.                                                                *)
(*                                                                          *)
(* Numbers.  The program computes in IEEE doubles; the model computes in    *)
(* integers with these units:                                               *)
(*   lengths and positions   world units                                    *)
(*   time (deltaTime, age)   1/TimeScale seconds                            *)
(*   velocities              1/VelScale world units per second              *)
(*   angles                  degrees (Pi = 180)                             *)
(*   unit vectors            components times Unit                          *)
(* Every product that the program rounds in floating point is rounded to    *)
(* the nearest integer here (RoundDiv).                                     *)
(***************************************************************************)
EXTENDS Integers, Sequences, FiniteSets, TLC

(* ------------------------------ units ---------------------------------- *)
TimeScale == 100
VelScale == 10
Unit == 1000
Pi == 180

(* ------------------------ program constants ---------------------------- *)
WorldWidth == 800
WorldHeight == 600
MaxLives == 3
ShipRadius == 15
ShipMaxSpeed == 300
ShipAcceleration == 200
ShipRotationSpeed == 172
BulletSpeed == 500
BulletLifetime == 2
BulletRadius == 3
FireRate == 5
MinDistanceFromShip == 150
SplitCount == 2
MaxAttempts == 50
OutOfBoundsMargin == 100
MaxJitter == 28

Null == [null |-> TRUE]
NoShip == -1

(* ------------------------------ arithmetic ----------------------------- *)
Abs(n) == IF n < 0 THEN -n ELSE n

Sign(n) == IF n > 0 THEN 1 ELSE IF n < 0 THEN -1 ELSE 0

\* a / b rounded to the nearest integer, halves away from zero (b > 0)
RoundDiv(a, b) == Sign(a) * ((2 * Abs(a) + b) \div (2 * b))

\* floor of the square root of n, for 0 <= n < SqrtLimit^2
SqrtLimit == 8192

RECURSIVE SqrtSearch(_, _, _)
SqrtSearch(n, lo, hi) ==
  IF hi - lo <= 1 THEN lo
  ELSE LET mid == (lo + hi) \div 2
       IN IF mid * mid <= n THEN SqrtSearch(n, mid, hi) ELSE SqrtSearch(n, lo, mid)

Sqrt(n) == SqrtSearch(n, 0, SqrtLimit)

CosTable ==
  <<
    1000, 1000, 999, 999, 998, 996, 995, 993, 990, 988, 985, 982, 978, 974, 970, 966, 961, 956,
    951, 946, 940, 934, 927, 921, 914, 906, 899, 891, 883, 875, 866, 857, 848, 839, 829, 819,
    809, 799, 788, 777, 766, 755, 743, 731, 719, 707, 695, 682, 669, 656, 643, 629, 616, 602,
    588, 574, 559, 545, 530, 515, 500, 485, 469, 454, 438, 423, 407, 391, 375, 358, 342, 326,
    309, 292, 276, 259, 242, 225, 208, 191, 174, 156, 139, 122, 105, 87, 70, 52, 35, 17,
    0, -17, -35, -52, -70, -87, -105, -122, -139, -156, -174, -191, -208, -225, -242, -259, -276, -292,
    -309, -326, -342, -358, -375, -391, -407, -423, -438, -454, -469, -485, -500, -515, -530, -545, -559, -574,
    -588, -602, -616, -629, -643, -656, -669, -682, -695, -707, -719, -731, -743, -755, -766, -777, -788, -799,
    -809, -819, -829, -839, -848, -857, -866, -875, -883, -891, -899, -906, -914, -921, -927, -934, -940, -946,
    -951, -956, -961, -966, -970, -974, -978, -982, -985, -988, -990, -993, -995, -996, -998, -999, -999, -1000,
    -1000, -1000, -999, -999, -998, -996, -995, -993, -990, -988, -985, -982, -978, -974, -970, -966, -961, -956,
    -951, -946, -940, -934, -927, -921, -914, -906, -899, -891, -883, -875, -866, -857, -848, -839, -829, -819,
    -809, -799, -788, -777, -766, -755, -743, -731, -719, -707, -695, -682, -669, -656, -643, -629, -616, -602,
    -588, -574, -559, -545, -530, -515, -500, -485, -469, -454, -438, -423, -407, -391, -375, -358, -342, -326,
    -309, -292, -276, -259, -242, -225, -208, -191, -174, -156, -139, -122, -105, -87, -70, -52, -35, -17,
    0, 17, 35, 52, 70, 87, 105, 122, 139, 156, 174, 191, 208, 225, 242, 259, 276, 292,
    309, 326, 342, 358, 375, 391, 407, 423, 438, 454, 469, 485, 500, 515, 530, 545, 559, 574,
    588, 602, 616, 629, 643, 656, 669, 682, 695, 707, 719, 731, 743, 755, 766, 777, 788, 799,
    809, 819, 829, 839, 848, 857, 866, 875, 883, 891, 899, 906, 914, 921, 927, 934, 940, 946,
    951, 956, 961, 966, 970, 974, 978, 982, 985, 988, 990, 993, 995, 996, 998, 999, 999, 1000
  >>

\* 1000 * cos(a), 1000 * sin(a) for a whole number of degrees
Cos(a) == CosTable[(a % 360) + 1]

Sin(a) == Cos(a - 90)

(* ------------------------------ Vector2D ------------------------------- *)
Vec(x, y) == [x |-> x, y |-> y]

ZERO == Vec(0, 0)

add(a, b) == Vec(a.x + b.x, a.y + b.y)

subtract(a, b) == Vec(a.x - b.x, a.y - b.y)

\* v * (num / den)
multiply(v, num, den) == Vec(RoundDiv(v.x * num, den), RoundDiv(v.y * num, den))

magnitudeSquared(v) == v.x * v.x + v.y * v.y

magnitude(v) == Sqrt(magnitudeSquared(v))

\* what a call gives that throws new Error(message)
Error(message) == [error |-> message]

Threw(r) == "error" \in DOMAIN r

\* a divide that gives the zero vector for the scalar 0: DivideByZeroThrows tells
\* it from divide
divide_quiet(v, scalar) ==
  IF scalar = 0 THEN Vec(0, 0)
  ELSE Vec(Sign(scalar) * RoundDiv(v.x, Abs(scalar)),
           Sign(scalar) * RoundDiv(v.y, Abs(scalar)))

\* Vector2D.divide: v / scalar, or the error thrown for the scalar 0
divide(v, scalar) ==
  IF scalar = 0 THEN Error("Cannot divide by zero")
  ELSE Vec(Sign(scalar) * RoundDiv(v.x, Abs(scalar)),
           Sign(scalar) * RoundDiv(v.y, Abs(scalar)))

\* the unit vector of v, components times Unit; the zero vector for v = 0
normalize(v) ==
  LET mag == magnitude(v)
  IN IF mag = 0 THEN Vec(0, 0)
     ELSE divide(Vec(v.x * Unit, v.y * Unit), mag)

\* distanceTo(a, b) < d, decided on the squares
distanceLess(a, b, d) == magnitudeSquared(subtract(a, b)) < d * d

\* Math.atan2(v.y, v.x) in whole degrees, in (-180, 180]
angle(v) ==
  LET cross(a) == v.y * Cos(a) - v.x * Sin(a)
      dot(a) == v.x * Cos(a) + v.y * Sin(a)
      fits(a) == cross(a) >= 0 /\ cross(a + 1) < 0 /\ dot(a) > 0
  IN IF v.x = 0 /\ v.y = 0 THEN 0
     ELSE IF v.y >= 0 THEN CHOOSE a \in 0..180 : fits(a)
     ELSE CHOOSE a \in (-180)..(-1) : fits(a)

fromAngle(a, mag) == Vec(RoundDiv(Cos(a) * mag, Unit), RoundDiv(Sin(a) * mag, Unit))

(* ------------------------------- Entity -------------------------------- *)
\* a collidesWith that takes touching circles to collide: CollidesWithExactly
\* tells it from collidesWith
collidesWith_touching(a, b) ==
  IF ~a.active \/ ~b.active THEN FALSE
  ELSE magnitudeSquared(subtract(a.position, b.position))
         <= (a.radius + b.radius) * (a.radius + b.radius)

\* a collidesWith that does not look at the active flags: OneKillPerBullet tells
\* it from collidesWith
collidesWith_ignoringActive(a, b) ==
  distanceLess(a.position, b.position, a.radius + b.radius)

\* Entity.collidesWith
collidesWith(a, b) ==
  IF ~a.active \/ ~b.active THEN FALSE
  ELSE distanceLess(a.position, b.position, a.radius + b.radius)

\* Entity.destroy
destroy(e) == [e EXCEPT !.active = FALSE]

\* Entity.isOutOfBounds with the default margin
isOutOfBounds(e, worldWidth, worldHeight) ==
  \/ e.position.x < -OutOfBoundsMargin
  \/ e.position.x > worldWidth + OutOfBoundsMargin
  \/ e.position.y < -OutOfBoundsMargin
  \/ e.position.y > worldHeight + OutOfBoundsMargin

\* a wrap that also moves a coordinate that is exactly on an edge:
\* WrapAroundBoundsMaps tells it from wrapPosition
wrapPosition_inclusive(p, worldWidth, worldHeight) ==
  LET newX == IF p.x <= 0 THEN worldWidth ELSE IF p.x >= worldWidth THEN 0 ELSE p.x
      newY == IF p.y <= 0 THEN worldHeight ELSE IF p.y >= worldHeight THEN 0 ELSE p.y
  IN Vec(newX, newY)

\* the position Entity.wrapAroundBounds assigns
wrapPosition(p, worldWidth, worldHeight) ==
  LET newX == IF p.x < 0 THEN worldWidth ELSE IF p.x > worldWidth THEN 0 ELSE p.x
      newY == IF p.y < 0 THEN worldHeight ELSE IF p.y > worldHeight THEN 0 ELSE p.y
  IN Vec(newX, newY)

\* Entity.wrapAroundBounds
wrapAroundBounds(e, worldWidth, worldHeight) ==
  [e EXCEPT !.position = wrapPosition(e.position, worldWidth, worldHeight)]

(* -------------------------------- Ship --------------------------------- *)
\* new Ship(id, position) with the default ShipConfig
Ship(id, position) ==
  [id |-> id, type |-> "SHIP", position |-> position, velocity |-> ZERO,
   rotation |-> 0, radius |-> ShipRadius, active |-> TRUE,
   isAccelerating |-> FALSE, targetPosition |-> Null]

accelerateTowards(s, targetPosition) ==
  [s EXCEPT !.targetPosition = targetPosition, !.isAccelerating = TRUE]

stopAccelerating(s) ==
  [s EXCEPT !.isAccelerating = FALSE, !.targetPosition = Null]

\* the two while loops of Ship.update that bring rotationDiff into [-Pi, Pi]
RECURSIVE normalizeRotationDiff(_)
normalizeRotationDiff(d) ==
  IF d > Pi THEN normalizeRotationDiff(d - 2 * Pi)
  ELSE IF d < -Pi THEN normalizeRotationDiff(d + 2 * Pi)
  ELSE d

\* the rotation Ship.update assigns when a mouse position is supplied
rotateTowards(s, dt, mousePosition) ==
  LET maxRotationThisFrame == RoundDiv(ShipRotationSpeed * dt, TimeScale)
      turn(targetRotation, rotationDiff) ==
        IF Abs(rotationDiff) <= maxRotationThisFrame THEN targetRotation
        ELSE s.rotation + Sign(rotationDiff) * maxRotationThisFrame
      aim(targetRotation) ==
        turn(targetRotation, normalizeRotationDiff(targetRotation - s.rotation))
  IN aim(angle(subtract(mousePosition, s.position)))

\* Math.pow(drag, deltaTime) times DragScale, for drag = 0.98
DragScale == 10000

\* a drag factor that is the same for every deltaTime: DragFramerateIndependent
\* tells it from dragPow
dragPow_perUpdate(dt) == 9800

RECURSIVE dragPow(_)
dragPow(dt) ==
  IF dt <= 0 THEN DragScale
  ELSE IF dt >= TimeScale THEN RoundDiv(9800 * dragPow(dt - TimeScale), DragScale)
  ELSE IF dt >= 10 THEN RoundDiv(9980 * dragPow(dt - 10), DragScale)
  ELSE RoundDiv(9998 * dragPow(dt - 1), DragScale)

\* the velocity after the thrust step of Ship.update
thrust(s, dt) ==
  IF s.isAccelerating /\ s.targetPosition # Null
  THEN LET directionToTarget == normalize(subtract(s.targetPosition, s.position))
           step == RoundDiv(ShipAcceleration * VelScale * dt, TimeScale)
       IN add(s.velocity, multiply(directionToTarget, step, Unit))
  ELSE s.velocity

\* a speed limit that bounds each component on its own: SpeedLimited tells it
\* from limitSpeed
limitSpeed_perAxis(v) ==
  LET max == ShipMaxSpeed * VelScale
      bound(c) == IF c > max THEN max ELSE IF c < -max THEN -max ELSE c
  IN Vec(bound(v.x), bound(v.y))

\* the speed limit of Ship.update
limitSpeed(v) ==
  IF magnitudeSquared(v) > (ShipMaxSpeed * VelScale) * (ShipMaxSpeed * VelScale)
  THEN multiply(normalize(v), ShipMaxSpeed * VelScale, Unit)
  ELSE v

\* position + velocity * deltaTime
integrate(position, velocity, dt) ==
  add(position, multiply(velocity, dt, VelScale * TimeScale))

\* a Ship.update that does not look at the active flag:
\* InactiveEntityIgnoresUpdate tells it from Ship_update
Ship_update_ignoringActive(s, dt, mousePosition) ==
  LET move(rotation, velocity) ==
        [s EXCEPT !.rotation = rotation, !.velocity = velocity,
                  !.position = integrate(s.position, velocity, dt)]
  IN move(IF mousePosition # Null THEN rotateTowards(s, dt, mousePosition)
          ELSE s.rotation,
          limitSpeed(multiply(thrust(s, dt), dragPow(dt), DragScale)))

\* Ship.update(deltaTime, mousePosition)
Ship_update(s, dt, mousePosition) ==
  IF ~s.active THEN s
  ELSE LET move(rotation, velocity) ==
             [s EXCEPT !.rotation = rotation, !.velocity = velocity,
                       !.position = integrate(s.position, velocity, dt)]
       IN move(IF mousePosition # Null THEN rotateTowards(s, dt, mousePosition)
               ELSE s.rotation,
               limitSpeed(multiply(thrust(s, dt), dragPow(dt), DragScale)))

\* Ship.getDirection, components times Unit
getDirection(s) == fromAngle(s.rotation, Unit)

(* ------------------------------- Bullet -------------------------------- *)
\* new Bullet(id, position, direction) with the default BulletConfig
Bullet(id, position, direction) ==
  [id |-> id, type |-> "BULLET", position |-> position,
   velocity |-> multiply(normalize(direction), BulletSpeed * VelScale, Unit),
   rotation |-> 0, radius |-> BulletRadius, active |-> TRUE,
   lifetime |-> BulletLifetime * TimeScale, age |-> 0]

\* a Bullet.update that lets the bullet live until its age exceeds the lifetime:
\* BulletLivesItsLifetime tells it from Bullet_update
Bullet_update_late(b, dt) ==
  IF ~b.active THEN b
  ELSE LET moved == [b EXCEPT !.position = integrate(b.position, b.velocity, dt),
                              !.age = b.age + dt]
       IN IF moved.age > moved.lifetime THEN destroy(moved) ELSE moved

\* Bullet.update(deltaTime)
Bullet_update(b, dt) ==
  IF ~b.active THEN b
  ELSE LET moved == [b EXCEPT !.position = integrate(b.position, b.velocity, dt),
                              !.age = b.age + dt]
       IN IF moved.age >= moved.lifetime THEN destroy(moved) ELSE moved

(* ------------------------------ Asteroid ------------------------------- *)
getRadiusForSize(size) ==
  CASE size = "SMALL" -> 15
    [] size = "MEDIUM" -> 30
    [] size = "LARGE" -> 50

\* point values in the reverse order: KillScoresPoints tells them from
\* getPointsForSize
getPointsForSize_reversed(size) ==
  CASE size = "SMALL" -> 20
    [] size = "MEDIUM" -> 50
    [] size = "LARGE" -> 100

getPointsForSize(size) ==
  CASE size = "SMALL" -> 100
    [] size = "MEDIUM" -> 50
    [] size = "LARGE" -> 20

\* new Asteroid(id, position, velocity, size, {rotationSpeed})
Asteroid(id, position, velocity, size, rotationSpeed) ==
  [id |-> id, type |-> "ASTEROID", position |-> position, velocity |-> velocity,
   rotation |-> 0, radius |-> getRadiusForSize(size), active |-> TRUE,
   size |-> size, rotationSpeed |-> rotationSpeed, points |-> getPointsForSize(size)]

\* Asteroid.update(deltaTime)
Asteroid_update(a, dt) ==
  IF ~a.active THEN a
  ELSE [a EXCEPT !.position = integrate(a.position, a.velocity, dt),
                 !.rotation = a.rotation + RoundDiv(a.rotationSpeed * dt, TimeScale)]

\* a getSmallerSize that goes from LARGE straight to SMALL: SplitMakesSmaller
\* tells it from getSmallerSize
getSmallerSize_skippingMedium(a) ==
  CASE a.size = "LARGE" -> "SMALL"
    [] a.size = "MEDIUM" -> "SMALL"
    [] a.size = "SMALL" -> "NONE"

\* Asteroid.getSmallerSize ("NONE" for null)
getSmallerSize(a) ==
  CASE a.size = "LARGE" -> "MEDIUM"
    [] a.size = "MEDIUM" -> "SMALL"
    [] a.size = "SMALL" -> "NONE"

\* a canSplit that lets only LARGE asteroids split: LevelTakesAllKills tells it
\* from canSplit
canSplit_largeOnly(a) == a.size = "LARGE"

\* Asteroid.canSplit
canSplit(a) == a.size # "SMALL"

(* ------------------------------- state --------------------------------- *)
VARIABLES
  objects,          \* the live entity objects, by the number of their id
  entities,         \* GameWorld.entities: the ids of the Map, in insertion order
  entityIdCounter,  \* GameWorld.entityIdCounter
  currentState,     \* GameWorld.currentState
  currentScore,     \* GameWorld.currentScore
  currentLevel,     \* GameWorld.currentLevel
  mousePosition,    \* GameWorld.mousePosition
  lives,            \* GameManager.lives
  ship,             \* GameManager.ship: an id, or NoShip for null
  shipController,   \* GameManager.shipController: [ship, timeSinceLastShot] or Null
  observed          \* what the last operation did: its name, the program before
                    \* it, the collision passes with the asteroids they iterated,
                    \* and the number of inactive entities in the table they
                    \* started with,
                    \* the kills, the ship-destroyed callbacks, the level check,
                    \* the arguments of a call made on a class directly, what
                    \* the last call of fire, splitAsteroid, collidesWith,
                    \* divide or normalize in it returned or threw

vars ==
  <<objects, entities, entityIdCounter, currentState, currentScore, currentLevel,
    mousePosition, lives, ship, shipController, observed>>

\* what an operation finds when it is called
Before ==
  [state |-> currentState, score |-> currentScore, level |-> currentLevel,
   lives |-> lives, entities |-> Len(entities), counter |-> entityIdCounter]

\* what the operations before this one did in the level in progress: the kills
\* made in it, the score it began with, and whether the game has seen a
\* restartLevel; a level has just begun when the last operation was a
\* startNewGame or a restartLevel or changed the level
Tally ==
  LET began == \/ observed.op \in {"startNewGame", "restartLevel"}
               \/ currentLevel # observed.before.level
  IN [kills |-> IF began THEN 0 ELSE observed.tally.kills + Len(observed.kills),
      score |-> IF began THEN currentScore ELSE observed.tally.score,
      restarted |-> IF observed.op = "startNewGame" THEN FALSE
                    ELSE observed.op = "restartLevel" \/ observed.tally.restarted]

\* nothing observed yet of operation op, after the operations that made tally
QuietAfter(op, tally) ==
  [op |-> op, before |-> Before, passes |-> 0, asteroids |-> <<>>, kills |-> <<>>,
   shipsDestroyed |-> <<>>, checkState |-> "NONE", checkAsteroids |-> -1,
   inactiveAtPass |-> -1, args |-> <<>>, result |-> [kind |-> "none"],
   tally |-> tally]

\* nothing observed yet of operation op
Quiet(op) == QuietAfter(op, Tally)

\* the program state as one value, with the random draws an operation will consume:
\* jitters (Math.random() * 0.5 of splitAsteroid) and positions (getRandomPosition)
Program(op, jitters, positions) ==
  [objects |-> objects, entities |-> entities, entityIdCounter |-> entityIdCounter,
   currentState |-> currentState, currentScore |-> currentScore,
   currentLevel |-> currentLevel, mousePosition |-> mousePosition, lives |-> lives,
   ship |-> ship, shipController |-> shipController,
   observed |-> Quiet(op), jitters |-> jitters, positions |-> positions,
   jittersDrawn |-> 0, positionsDrawn |-> 0]

\* objects no reference reaches any more (neither the Map nor GameManager.ship) are gone
collect(w) ==
  LET live == {w.entities[i] : i \in 1..Len(w.entities)} \cup ({w.ship} \ {NoShip})
  IN [w EXCEPT !.objects = [id \in live \cap DOMAIN w.objects |-> w.objects[id]]]

\* the program state after an operation that ended in w
Becomes(w) ==
  LET assign(c) ==
        /\ objects' = c.objects
        /\ entities' = c.entities
        /\ entityIdCounter' = c.entityIdCounter
        /\ currentState' = c.currentState
        /\ currentScore' = c.currentScore
        /\ currentLevel' = c.currentLevel
        /\ mousePosition' = c.mousePosition
        /\ lives' = c.lives
        /\ ship' = c.ship
        /\ shipController' = c.shipController
        /\ observed' = c.observed
  IN assign(collect(w))

(* ------------------------------ GameWorld ------------------------------ *)
InTable(w, id) == \E i \in 1..Len(w.entities) : w.entities[i] = id

\* GameWorld.addEntity: Map.set keeps the place of a key it already holds
addEntity(w, e) ==
  [w EXCEPT !.objects = (e.id :> e) @@ w.objects,
            !.entities = IF InTable(w, e.id) THEN w.entities
                         ELSE Append(w.entities, e.id)]

\* a generateEntityId that leaves the counter as it is: IdsNeverShared tells it
\* from generateEntityId
generateEntityId_stuck(w) == w

\* GameWorld.generateEntityId: the id is the counter's value before the increment
generateEntityId(w) == [w EXCEPT !.entityIdCounter = w.entityIdCounter + 1]

\* the ids among ids whose object is active and of the given type ("ANY": of any
\* type), in order: entities.filter(e => e instanceof T && e.active)
RECURSIVE activeOf(_, _, _)
activeOf(w, ids, type) ==
  IF ids = <<>> THEN <<>>
  ELSE LET e == w.objects[Head(ids)]
       IN IF e.active /\ (type = "ANY" \/ e.type = type)
          THEN <<Head(ids)>> \o activeOf(w, Tail(ids), type)
          ELSE activeOf(w, Tail(ids), type)

\* the entity loop of GameWorld.update
RECURSIVE updateEntities(_, _, _)
updateEntities(w, ids, dt) ==
  IF ids = <<>> THEN w
  ELSE LET e == w.objects[Head(ids)]
           updated ==
             IF ~e.active THEN e
             ELSE IF e.type = "SHIP" THEN Ship_update(e, dt, w.mousePosition)
             ELSE IF e.type = "BULLET" THEN Bullet_update(e, dt)
             ELSE Asteroid_update(e, dt)
       IN updateEntities([w EXCEPT !.objects[e.id] = updated], Tail(ids), dt)

\* a removeInactiveEntities that leaves the ships in the table:
\* InactiveRemovedNeverRevived tells it from removeInactiveEntities
removeInactiveEntities_sparingShips(w) ==
  [w EXCEPT !.entities =
     SelectSeq(w.entities,
               LAMBDA id : w.objects[id].active \/ w.objects[id].type = "SHIP")]

\* a removeInactiveEntities that leaves the bullets in the table:
\* BulletsGoAway tells it from removeInactiveEntities
removeInactiveEntities_sparingBullets(w) ==
  [w EXCEPT !.entities =
     SelectSeq(w.entities,
               LAMBDA id : w.objects[id].active \/ w.objects[id].type = "BULLET")]

\* GameWorld.removeInactiveEntities
removeInactiveEntities(w) ==
  [w EXCEPT !.entities = activeOf(w, w.entities, "ANY")]

startGame(w) ==
  [w EXCEPT !.currentState = "PLAYING", !.currentScore = 0, !.currentLevel = 1]

\* a pauseGame that does not look at the state: PauseResumeGuarded tells it from
\* pauseGame
pauseGame_unguarded(w) == [w EXCEPT !.currentState = "PAUSED"]

pauseGame(w) ==
  IF w.currentState = "PLAYING" THEN [w EXCEPT !.currentState = "PAUSED"] ELSE w

\* a resumeGame that does not look at the state: GameOverTerminal tells it from
\* resumeGame
resumeGame_unguarded(w) == [w EXCEPT !.currentState = "PLAYING"]

resumeGame(w) ==
  IF w.currentState = "PAUSED" THEN [w EXCEPT !.currentState = "PLAYING"] ELSE w

gameOver(w) == [w EXCEPT !.currentState = "GAME_OVER"]

addScore(w, points) == [w EXCEPT !.currentScore = w.currentScore + points]

nextLevel(w) == [w EXCEPT !.currentLevel = w.currentLevel + 1]

\* a reset that leaves the table as it is: StartNewGameResets tells it from reset
reset_keepingEntities(w) ==
  [w EXCEPT !.entityIdCounter = 0, !.currentState = "READY",
            !.currentScore = 0, !.currentLevel = 1]

\* GameWorld.reset
reset(w) ==
  [w EXCEPT !.entities = <<>>, !.entityIdCounter = 0, !.currentState = "READY",
            !.currentScore = 0, !.currentLevel = 1]

getWorldCenter == Vec(WorldWidth \div 2, WorldHeight \div 2)

(* --------------------------- AsteroidSpawner --------------------------- *)
\* AsteroidSpawner.getRandomPosition: the positions the do-while loop can return
\* when every draw is one of candidates and attempts draws were rejected so far
RECURSIVE getRandomPosition(_, _, _)
getRandomPosition(candidates, avoidPosition, attempts) ==
  IF avoidPosition = Null \/ attempts + 1 >= MaxAttempts THEN candidates
  ELSE LET tooClose(p) == distanceLess(p, avoidPosition, MinDistanceFromShip)
       IN {p \in candidates : ~tooClose(p)}
          \cup (IF \E p \in candidates : tooClose(p)
                THEN getRandomPosition(candidates, avoidPosition, attempts + 1)
                ELSE {})

\* the i-th position Math.random() gives when the first draws.near positions are
\* draws.close and every later one is draws.far
drawAt(draws, i) == IF i <= draws.near THEN draws.close ELSE draws.far

\* a getRandomPosition loop that goes on until a draw is far enough:
\* SpawnAsteroidDraws tells it from getRandomPositionLoop
RECURSIVE getRandomPositionLoop_uncapped(_, _, _)
getRandomPositionLoop_uncapped(draws, avoidPosition, attempts) ==
  LET position == drawAt(draws, attempts + 1)
  IN IF avoidPosition = Null
     THEN [position |-> position, attempts |-> attempts + 1]
     ELSE IF distanceLess(position, avoidPosition, MinDistanceFromShip)
     THEN getRandomPositionLoop_uncapped(draws, avoidPosition, attempts + 1)
     ELSE [position |-> position, attempts |-> attempts + 1]

\* the do-while loop of AsteroidSpawner.getRandomPosition: the position it returns
\* and the draws it made
RECURSIVE getRandomPositionLoop(_, _, _)
getRandomPositionLoop(draws, avoidPosition, attempts) ==
  LET position == drawAt(draws, attempts + 1)
  IN IF avoidPosition = Null \/ attempts + 1 >= MaxAttempts
     THEN [position |-> position, attempts |-> attempts + 1]
     ELSE IF distanceLess(position, avoidPosition, MinDistanceFromShip)
     THEN getRandomPositionLoop(draws, avoidPosition, attempts + 1)
     ELSE [position |-> position, attempts |-> attempts + 1]

\* the next result of getRandomPosition: the draws come round again when the
\* chosen sequence is used up
drawPosition(w) ==
  IF w.positions = <<>> THEN ZERO
  ELSE w.positions[(w.positionsDrawn % Len(w.positions)) + 1]

\* the next Math.random() * 0.5 of splitAsteroid, in degrees
drawJitter(w) ==
  IF w.jitters = <<>> THEN 0
  ELSE w.jitters[(w.jittersDrawn % Len(w.jitters)) + 1]

\* a spawnAsteroid that gives the asteroid a velocity: AsteroidsStayPut tells it
\* from spawnAsteroid
spawnAsteroid_drifting(w, size) ==
  LET position == drawPosition(w)
      id == w.entityIdCounter
      w1 == generateEntityId([w EXCEPT !.positionsDrawn = @ + 1])
  IN addEntity(w1, Asteroid(id, position, Vec(20 * VelScale, 0), size, 0))

\* AsteroidSpawner.spawnAsteroid
spawnAsteroid(w, size) ==
  LET position == drawPosition(w)
      id == w.entityIdCounter
      w1 == generateEntityId([w EXCEPT !.positionsDrawn = @ + 1])
  IN addEntity(w1, Asteroid(id, position, ZERO, size, 0))

\* AsteroidSpawner.spawnMultipleAsteroids
RECURSIVE spawnMultipleAsteroids(_, _, _)
spawnMultipleAsteroids(w, count, size) ==
  IF count <= 0 THEN w
  ELSE spawnMultipleAsteroids(spawnAsteroid(w, size), count - 1, size)

\* a spawnLevelAsteroids that spawns the asteroids of level 1 on every level:
\* LevelStartsWithAsteroids tells it from spawnLevelAsteroids
spawnLevelAsteroids_sameEveryLevel(w, level) == spawnMultipleAsteroids(w, 3 + 1, "LARGE")

\* AsteroidSpawner.spawnLevelAsteroids
spawnLevelAsteroids(w, level) == spawnMultipleAsteroids(w, 3 + level, "LARGE")

\* the loop of AsteroidSpawner.splitAsteroid, from index i on
RECURSIVE splitLoop(_, _, _, _)
splitLoop(w, asteroid, smallerSize, i) ==
  IF i >= SplitCount THEN w
  ELSE LET a == (2 * Pi * i) \div SplitCount + drawJitter(w)
           offsetDistance == RoundDiv(getRadiusForSize(asteroid.size), 2)
           position == add(asteroid.position, fromAngle(a, offsetDistance))
           id == w.entityIdCounter
           w1 == generateEntityId([w EXCEPT !.jittersDrawn = @ + 1])
           w2 == addEntity(w1, Asteroid(id, position, ZERO, smallerSize, 0))
           w3 == [w2 EXCEPT !.observed.result.ids = Append(@, id)]
       IN splitLoop(w3, asteroid, smallerSize, i + 1)

\* a splitAsteroid that draws an id before it looks at the asteroid:
\* RefusalsChangeNothing tells it from splitAsteroid
splitAsteroid_consumingId(w, asteroid) ==
  LET returning(ids) ==
        [generateEntityId(w) EXCEPT !.observed.result = [kind |-> "asteroids", ids |-> ids]]
  IN IF ~canSplit(asteroid) THEN returning(<<>>)
     ELSE IF getSmallerSize(asteroid) = "NONE" THEN returning(<<>>)
     ELSE splitLoop(returning(<<>>), asteroid, getSmallerSize(asteroid), 0)

\* AsteroidSpawner.splitAsteroid
splitAsteroid(w, asteroid) ==
  LET returning(ids) == [w EXCEPT !.observed.result = [kind |-> "asteroids", ids |-> ids]]
  IN IF ~canSplit(asteroid) THEN returning(<<>>)
     ELSE IF getSmallerSize(asteroid) = "NONE" THEN returning(<<>>)
     ELSE splitLoop(returning(<<>>), asteroid, getSmallerSize(asteroid), 0)

(* --------------------------- ShipController ---------------------------- *)
minTimeBetweenShots == TimeScale \div FireRate

\* new ShipController(ship, world): ready to fire
ShipController(shipId) == [ship |-> shipId, timeSinceLastShot |-> minTimeBetweenShots]

\* ShipController.update
ShipController_update(w, dt) ==
  [w EXCEPT !.shipController.timeSinceLastShot = @ + dt]

\* a fire that still refuses when exactly the minimum time has gone by:
\* FireRateLimited tells it from fire
fire_refusingAtMinimum(w) ==
  IF w.shipController.timeSinceLastShot <= minTimeBetweenShots
  THEN [w EXCEPT !.observed.result = Null]
  ELSE LET s == w.objects[w.shipController.ship]
           bulletId == w.entityIdCounter
           w1 == generateEntityId(w)
           w2 == addEntity(w1, Bullet(bulletId, s.position, getDirection(s)))
       IN [w2 EXCEPT !.shipController.timeSinceLastShot = 0,
                     !.observed.result = [kind |-> "bullet", id |-> bulletId]]

\* ShipController.fire
fire(w) ==
  IF w.shipController.timeSinceLastShot < minTimeBetweenShots
  THEN [w EXCEPT !.observed.result = Null]
  ELSE LET s == w.objects[w.shipController.ship]
           bulletId == w.entityIdCounter
           w1 == generateEntityId(w)
           w2 == addEntity(w1, Bullet(bulletId, s.position, getDirection(s)))
       IN [w2 EXCEPT !.shipController.timeSinceLastShot = 0,
                     !.observed.result = [kind |-> "bullet", id |-> bulletId]]

(* ----------------------------- GameManager ----------------------------- *)
\* a handleShipDestroyed that ends the game one life late:
\* ShipDestroyedTakesOneLife tells it from handleShipDestroyed
handleShipDestroyed_late(w) ==
  LET w1 == [w EXCEPT !.lives = w.lives - 1]
  IN IF w1.lives < 0 THEN gameOver(w1) ELSE w1

\* GameManager.handleShipDestroyed
handleShipDestroyed(w) ==
  LET w1 == [w EXCEPT !.lives = w.lives - 1]
  IN IF w1.lives <= 0 THEN gameOver(w1) ELSE w1

(* -------------------------- CollisionManager --------------------------- *)
\* a handleBulletAsteroidCollision that leaves the asteroid active:
\* AsteroidDiesOnce tells it from handleBulletAsteroidCollision
handleBulletAsteroidCollision_leavingAsteroid(w, bulletId, asteroidId) ==
  LET asteroid == w.objects[asteroidId]
      split(w2) == IF canSplit(asteroid) THEN splitAsteroid(w2, asteroid) ELSE w2
      seen(w3) ==
        [w3 EXCEPT !.observed.kills =
                      Append(@, [bullet |-> bulletId, asteroid |-> asteroidId,
                                 size |-> asteroid.size, score |-> w3.currentScore])]
  IN seen(split(addScore([w EXCEPT !.objects[bulletId] = destroy(@)], asteroid.points)))

\* CollisionManager.handleBulletAsteroidCollision
handleBulletAsteroidCollision(w, bulletId, asteroidId) ==
  LET asteroid == w.objects[asteroidId]
      split(w2) == IF canSplit(asteroid) THEN splitAsteroid(w2, asteroid) ELSE w2
      seen(w3) ==
        [w3 EXCEPT !.objects[asteroidId] = destroy(@),
                   !.observed.kills =
                      Append(@, [bullet |-> bulletId, asteroid |-> asteroidId,
                                 size |-> asteroid.size, score |-> w3.currentScore])]
  IN seen(split(addScore([w EXCEPT !.objects[bulletId] = destroy(@)], asteroid.points)))

\* a handleShipAsteroidCollision that destroys the asteroid too:
\* ShipCollisionSparesAsteroid tells it from handleShipAsteroidCollision
handleShipAsteroidCollision_destroyingBoth(w, shipId, asteroidId) ==
  LET seen(w2) ==
        [w2 EXCEPT !.observed.shipsDestroyed =
           Append(@, [ship |-> shipId, asteroid |-> asteroidId,
                      lives |-> w2.lives, state |-> w2.currentState])]
  IN seen(handleShipDestroyed([w EXCEPT !.objects[shipId] = destroy(@),
                                        !.objects[asteroidId] = destroy(@)]))

\* CollisionManager.handleShipAsteroidCollision, with the onShipDestroyed handler
\* GameManager installs
handleShipAsteroidCollision(w, shipId, asteroidId) ==
  LET seen(w2) ==
        [w2 EXCEPT !.observed.shipsDestroyed =
           Append(@, [ship |-> shipId, asteroid |-> asteroidId,
                      lives |-> w2.lives, state |-> w2.currentState])]
  IN seen(handleShipDestroyed([w EXCEPT !.objects[shipId] = destroy(@)]))

\* for (x of first) for (asteroid of asteroids): the pairs in iteration order
pairsOf(first, asteroids) ==
  [k \in 1..(Len(first) * Len(asteroids)) |->
     <<first[((k - 1) \div Len(asteroids)) + 1], asteroids[((k - 1) % Len(asteroids)) + 1]>>]

\* a bullet-asteroid loop that ends at its first collision: PassOrderIndependent
\* tells it from bulletAsteroidLoop
RECURSIVE bulletAsteroidLoop_endingAtFirst(_, _)
bulletAsteroidLoop_endingAtFirst(w, pairs) ==
  IF pairs = <<>> THEN w
  ELSE LET bulletId == Head(pairs)[1]
           asteroidId == Head(pairs)[2]
       IN IF collidesWith(w.objects[bulletId], w.objects[asteroidId])
          THEN handleBulletAsteroidCollision(w, bulletId, asteroidId)
          ELSE bulletAsteroidLoop_endingAtFirst(w, Tail(pairs))

\* the bullet-asteroid loop of checkCollisions
RECURSIVE bulletAsteroidLoop(_, _)
bulletAsteroidLoop(w, pairs) ==
  IF pairs = <<>> THEN w
  ELSE LET bulletId == Head(pairs)[1]
           asteroidId == Head(pairs)[2]
       IN IF collidesWith(w.objects[bulletId], w.objects[asteroidId])
          THEN bulletAsteroidLoop(
                 handleBulletAsteroidCollision(w, bulletId, asteroidId), Tail(pairs))
          ELSE bulletAsteroidLoop(w, Tail(pairs))

\* the ship-asteroid loop of checkCollisions
RECURSIVE shipAsteroidLoop(_, _)
shipAsteroidLoop(w, pairs) ==
  IF pairs = <<>> THEN w
  ELSE LET shipId == Head(pairs)[1]
           asteroidId == Head(pairs)[2]
       IN IF collidesWith(w.objects[shipId], w.objects[asteroidId])
          THEN shipAsteroidLoop(
                 handleShipAsteroidCollision(w, shipId, asteroidId), Tail(pairs))
          ELSE shipAsteroidLoop(w, Tail(pairs))

\* a checkCollisions that goes through the ships before the bullets:
\* BulletsBeforeShips tells it from checkCollisions
checkCollisions_shipsFirst(w) ==
  LET ships == activeOf(w, w.entities, "SHIP")
      bullets == activeOf(w, w.entities, "BULLET")
      asteroids == activeOf(w, w.entities, "ASTEROID")
      w1 == [w EXCEPT !.observed.passes = @ + 1, !.observed.asteroids = asteroids,
                      !.observed.inactiveAtPass =
                         Len(w.entities) - Len(activeOf(w, w.entities, "ANY"))]
      w2 == shipAsteroidLoop(w1, pairsOf(ships, asteroids))
  IN bulletAsteroidLoop(w2, pairsOf(bullets, asteroids))

\* a checkCollisions that filters the asteroids again for the ships, after the
\* bullets: ChildrenSitOut tells it from checkCollisions
checkCollisions_filteringTwice(w) ==
  LET ships == activeOf(w, w.entities, "SHIP")
      bullets == activeOf(w, w.entities, "BULLET")
      asteroids == activeOf(w, w.entities, "ASTEROID")
      w1 == [w EXCEPT !.observed.passes = @ + 1, !.observed.asteroids = asteroids,
                      !.observed.inactiveAtPass =
                         Len(w.entities) - Len(activeOf(w, w.entities, "ANY"))]
      w2 == bulletAsteroidLoop(w1, pairsOf(bullets, asteroids))
  IN shipAsteroidLoop(w2, pairsOf(ships, activeOf(w2, w2.entities, "ASTEROID")))

\* CollisionManager.checkCollisions
checkCollisions(w) ==
  LET ships == activeOf(w, w.entities, "SHIP")
      bullets == activeOf(w, w.entities, "BULLET")
      asteroids == activeOf(w, w.entities, "ASTEROID")
      w1 == [w EXCEPT !.observed.passes = @ + 1, !.observed.asteroids = asteroids,
                      !.observed.inactiveAtPass =
                         Len(w.entities) - Len(activeOf(w, w.entities, "ANY"))]
      w2 == bulletAsteroidLoop(w1, pairsOf(bullets, asteroids))
  IN shipAsteroidLoop(w2, pairsOf(ships, asteroids))

\* CollisionManager.getAsteroidCount
getAsteroidCount(w) == Len(activeOf(w, w.entities, "ASTEROID"))

\* CollisionManager.isLevelComplete
isLevelComplete(w) == getAsteroidCount(w) = 0

\* a GameWorld.update that removes the inactive entities after the collision
\* handler: UpdateRemovesThenCollides tells it from GameWorld_update
GameWorld_update_removingLast(w, dt) ==
  IF w.currentState # "PLAYING" THEN w
  ELSE removeInactiveEntities(checkCollisions(updateEntities(w, w.entities, dt)))

\* a GameWorld.update that does not look at the state: UpdateOutsidePlaying tells
\* it from GameWorld_update
GameWorld_update_always(w, dt) ==
  checkCollisions(removeInactiveEntities(updateEntities(w, w.entities, dt)))

\* GameWorld.update, with the collision handler GameManager installs
GameWorld_update(w, dt) ==
  IF w.currentState # "PLAYING" THEN w
  ELSE checkCollisions(removeInactiveEntities(updateEntities(w, w.entities, dt)))

(* ----------------------- GameManager operations ------------------------ *)
\* GameManager.startLevel
startLevel(w, level) ==
  LET w1 == collect([w EXCEPT !.ship = NoShip, !.shipController = Null])
      shipPosition == getWorldCenter
      shipId == w1.entityIdCounter
      w2 == addEntity(generateEntityId(w1), Ship(shipId, shipPosition))
      w3 == [w2 EXCEPT !.ship = shipId, !.shipController = ShipController(shipId)]
  IN spawnLevelAsteroids(w3, level)

\* GameManager.startNewGame
startNewGame(w) ==
  LET w1 == reset(w)
      w2 == [w1 EXCEPT !.lives = MaxLives]
      w3 == startGame(w2)
  IN startLevel(w3, 1)

\* a forEach that destroys the ships only: RestartLevelRenews tells it from
\* destroyAll
RECURSIVE destroyAll_shipsOnly(_, _)
destroyAll_shipsOnly(w, ids) ==
  IF ids = <<>> THEN w
  ELSE IF w.objects[Head(ids)].type # "SHIP" THEN destroyAll_shipsOnly(w, Tail(ids))
  ELSE destroyAll_shipsOnly([w EXCEPT !.objects[Head(ids)] = destroy(@)], Tail(ids))

\* allEntities.forEach(entity => entity.destroy())
RECURSIVE destroyAll(_, _)
destroyAll(w, ids) ==
  IF ids = <<>> THEN w
  ELSE destroyAll([w EXCEPT !.objects[Head(ids)] = destroy(@)], Tail(ids))

\* a restartLevel that starts the score again: ScoreNeverDecreases tells it from
\* restartLevel
restartLevel_resettingScore(w) ==
  startLevel(destroyAll([w EXCEPT !.currentScore = 0], w.entities), w.currentLevel)

\* GameManager.restartLevel
restartLevel(w) ==
  LET currentLevel_ == w.currentLevel
  IN startLevel(destroyAll(w, w.entities), currentLevel_)

\* an advanceLevel that counts the level twice: LevelAdvancesWhenCleared tells it
\* from advanceLevel
advanceLevel_twice(w) ==
  LET w1 == nextLevel(nextLevel(w))
  IN startLevel(w1, w1.currentLevel)

\* an advanceLevel that leaves the start of the level to a later call:
\* AsteroidsWhilePlaying tells it from advanceLevel
advanceLevel_notStarting(w) == nextLevel(w)

\* GameManager.advanceLevel
advanceLevel(w) ==
  LET w1 == nextLevel(w)
  IN startLevel(w1, w1.currentLevel)

\* GameManager.checkLevelComplete
checkLevelComplete(w) ==
  LET seen == [w EXCEPT !.observed.checkState = w.currentState,
                        !.observed.checkAsteroids = getAsteroidCount(w)]
  IN IF isLevelComplete(w) /\ w.currentState = "PLAYING" THEN advanceLevel(seen)
     ELSE seen

\* a forEach that wraps the bullets too: WrappedAndCulled tells it from
\* wrapEntities
RECURSIVE wrapEntities_bulletsToo(_, _)
wrapEntities_bulletsToo(w, ids) ==
  IF ids = <<>> THEN w
  ELSE LET e == w.objects[Head(ids)]
       IN IF e.active
          THEN wrapEntities_bulletsToo(
                 [w EXCEPT !.objects[e.id] = wrapAroundBounds(e, WorldWidth, WorldHeight)],
                 Tail(ids))
          ELSE wrapEntities_bulletsToo(w, Tail(ids))

\* the first forEach of GameManager.update: wrap every active entity but bullets
RECURSIVE wrapEntities(_, _)
wrapEntities(w, ids) ==
  IF ids = <<>> THEN w
  ELSE LET e == w.objects[Head(ids)]
       IN IF e.active /\ e.type # "BULLET"
          THEN wrapEntities(
                 [w EXCEPT !.objects[e.id] = wrapAroundBounds(e, WorldWidth, WorldHeight)],
                 Tail(ids))
          ELSE wrapEntities(w, Tail(ids))

\* the second forEach of GameManager.update: destroy the bullets out of bounds
RECURSIVE cullBullets(_, _)
cullBullets(w, ids) ==
  IF ids = <<>> THEN w
  ELSE LET e == w.objects[Head(ids)]
       IN IF e.type = "BULLET" /\ e.active /\ isOutOfBounds(e, WorldWidth, WorldHeight)
          THEN cullBullets([w EXCEPT !.objects[e.id] = destroy(e)], Tail(ids))
          ELSE cullBullets(w, Tail(ids))

\* GameManager.update
GameManager_update(w, dt) ==
  LET controller(w1) ==
        IF w1.shipController # Null /\ w1.currentState = "PLAYING"
        THEN ShipController_update(w1, dt) ELSE w1
      wrapShip(w2) ==
        IF w2.ship # NoShip /\ w2.objects[w2.ship].active
        THEN [w2 EXCEPT !.objects[w2.ship] =
                wrapAroundBounds(@, WorldWidth, WorldHeight)]
        ELSE w2
      sweep(w3, allEntities) == cullBullets(wrapEntities(w3, allEntities), allEntities)
      wrapAndCull(w3) == sweep(w3, w3.entities)
  IN checkLevelComplete(wrapAndCull(wrapShip(controller(GameWorld_update(w, dt)))))

\* GameManager.handleMouseDown
handleMouseDown(w, button, worldPosition) ==
  IF w.ship = NoShip \/ w.shipController = Null \/ w.currentState # "PLAYING" THEN w
  ELSE IF button = "left" THEN fire(w)
  ELSE IF button = "right"
       THEN [w EXCEPT !.objects[w.ship] = accelerateTowards(@, worldPosition)]
  ELSE w

\* a handleMouseUp that does not look at the state: PointerIgnoredOutsidePlaying
\* tells it from handleMouseUp
handleMouseUp_anyState(w, button) ==
  IF w.ship = NoShip THEN w
  ELSE IF button = "right" THEN [w EXCEPT !.objects[w.ship] = stopAccelerating(@)]
  ELSE w

\* GameManager.handleMouseUp
handleMouseUp(w, button) ==
  IF w.ship = NoShip \/ w.currentState # "PLAYING" THEN w
  ELSE IF button = "right" THEN [w EXCEPT !.objects[w.ship] = stopAccelerating(@)]
  ELSE w

\* GameManager.pause
pause(w) == pauseGame(w)

\* GameManager.resume
resume(w) == resumeGame(w)

\* GameManager.updateMousePosition: hands the pointer position to the world
updateMousePosition(w, worldPosition) == [w EXCEPT !.mousePosition = worldPosition]

(* ------------------------------- inputs -------------------------------- *)
\* bounds of the explored behaviours
MaxIdle == 21
MaxIds == 10
MaxRestartIds == 20
DeepMaxIdle == 20
DeepMaxIds == 70
DeepMaxRestartIds == 10
MotionMaxIdle == 301
MotionMaxIds == 7
MotionMaxRestartIds == 10

\* the sequences among tapes that getRandomPosition can give as its successive
\* results when every Math.random() position is one of candidates
PositionDraws(tapes, candidates) ==
  {ps \in tapes :
     \A i \in 1..Len(ps) : ps[i] \in getRandomPosition(candidates, getWorldCenter, 0)}

\* what the caller and Math.random() supply: the deltaTime values, the sequences
\* of positions getRandomPosition returns and of jitters splitAsteroid draws,
\* the right-click targets and the pointer positions
Inputs ==
  [deltaTimes |-> {0, 20},
   positions |-> PositionDraws(
                   {<<Vec(430, 300), Vec(430, 300), Vec(10, 300), Vec(500, 300)>>},
                   {Vec(430, 300), Vec(500, 300), Vec(10, 300)}),
   jitters |-> {<<0>>, <<MaxJitter, 0>>},
   targets |-> {Vec(400, 300)},
   pointers |-> {Vec(800, 300)},
   maxIdle |-> MaxIdle,
   maxIds |-> MaxIds,
   maxRestartIds |-> MaxRestartIds]

\* one layout for whole levels: the four asteroids of level 1 straight ahead of the
\* ship, the fifth of level 2 on top of it
DeepInputs ==
  [deltaTimes |-> {10},
   positions |-> PositionDraws(
                   {<<Vec(500, 300), Vec(500, 300), Vec(500, 300), Vec(500, 300),
                      Vec(430, 300)>>},
                   {Vec(500, 300), Vec(430, 300)}),
   jitters |-> {<<0>>},
   targets |-> {Vec(400, 300)},
   pointers |-> {Vec(800, 300)},
   maxIdle |-> DeepMaxIdle,
   maxIds |-> DeepMaxIds,
   maxRestartIds |-> DeepMaxRestartIds]

\* one layout for a ship in motion: it thrusts towards the top edge, aims
\* downwards, and every asteroid is near the top edge
MotionInputs ==
  [deltaTimes |-> {0, 100},
   positions |-> PositionDraws({<<Vec(400, 20)>>}, {Vec(400, 20)}),
   jitters |-> {<<0>>},
   targets |-> {Vec(400, 0)},
   pointers |-> {Vec(400, 500)},
   maxIdle |-> MotionMaxIdle,
   maxIds |-> MotionMaxIds,
   maxRestartIds |-> MotionMaxRestartIds]

(* ------------------------------- actions ------------------------------- *)
Init ==
  /\ objects = [id \in {} |-> Null]
  /\ entities = <<>>
  /\ entityIdCounter = 0
  /\ currentState = "READY"
  /\ currentScore = 0
  /\ currentLevel = 1
  /\ mousePosition = Null
  /\ lives = MaxLives
  /\ ship = NoShip
  /\ shipController = Null
  /\ observed =
       [QuietAfter("constructor", [kills |-> 0, score |-> 0, restarted |-> FALSE]) EXCEPT
          !.before = [state |-> "READY", score |-> 0, level |-> 1, lives |-> MaxLives,
                      entities |-> 0, counter |-> 0]]

StartNewGame(in) ==
  \E ps \in in.positions :
    Becomes(startNewGame(Program("startNewGame", <<>>, ps)))

\* ids are handed out to a restarted level up to maxRestartIds
RestartLevel(in) ==
  /\ entityIdCounter + 1 + 3 + currentLevel <= in.maxRestartIds
  /\ \E ps \in in.positions :
       Becomes(restartLevel(Program("restartLevel", <<>>, ps)))

Pause == Becomes(pause(Program("pause", <<>>, <<>>)))

Resume == Becomes(resume(Program("resume", <<>>, <<>>)))

\* deltaTime is the caller's; playing time goes by only while the last shot is
\* less than maxIdle ago, and a kill hands out ids up to maxIds
Update(in) ==
  \E dt \in in.deltaTimes :
    LET drawing(plain) ==
          /\ plain.entityIdCounter = entityIdCounter \/ plain.entityIdCounter <= in.maxIds
          /\ IF plain.jittersDrawn = 0 /\ plain.positionsDrawn = 0
             THEN Becomes(plain)
             ELSE \E js \in in.jitters :
                    \E ps \in in.positions :
                      Becomes(GameManager_update(Program("update", js, ps), dt))
    IN /\ (currentState = "PLAYING" /\ shipController # Null)
            => shipController.timeSinceLastShot < in.maxIdle
       /\ drawing(GameManager_update(Program("update", <<>>, <<>>), dt))

\* a shot hands out an id, up to maxIds
MouseDownLeft(in) ==
  /\ entityIdCounter + 1 <= in.maxIds
  /\ Becomes(handleMouseDown(Program("mouseDownLeft", <<>>, <<>>), "left", ZERO))

MouseDownRight(in) ==
  \E p \in in.targets :
    Becomes(handleMouseDown(Program("mouseDownRight", <<>>, <<>>), "right", p))

MouseUp ==
  \E button \in {"left", "right"} :
    Becomes(handleMouseUp(Program(IF button = "right" THEN "mouseUpRight"
                                  ELSE "mouseUpLeft", <<>>, <<>>), button))

UpdateMousePosition(in) ==
  \E p \in in.pointers :
    Becomes(updateMousePosition(Program("updateMousePosition", <<>>, <<>>), p))

Next ==
  \/ StartNewGame(Inputs)
  \/ RestartLevel(Inputs)
  \/ Pause
  \/ Resume
  \/ Update(Inputs)
  \/ MouseDownLeft(Inputs)
  \/ MouseDownRight(Inputs)
  \/ MouseUp
  \/ UpdateMousePosition(Inputs)

Spec == Init /\ [][Next]_vars

DeepNext ==
  \/ StartNewGame(DeepInputs)
  \/ RestartLevel(DeepInputs)
  \/ Pause
  \/ Resume
  \/ Update(DeepInputs)
  \/ MouseDownLeft(DeepInputs)
  \/ MouseDownRight(DeepInputs)
  \/ MouseUp
  \/ UpdateMousePosition(DeepInputs)

DeepSpec == Init /\ [][DeepNext]_vars

MotionNext ==
  \/ StartNewGame(MotionInputs)
  \/ RestartLevel(MotionInputs)
  \/ Pause
  \/ Resume
  \/ Update(MotionInputs)
  \/ MouseDownLeft(MotionInputs)
  \/ MouseDownRight(MotionInputs)
  \/ MouseUp
  \/ UpdateMousePosition(MotionInputs)

MotionSpec == Init /\ [][MotionNext]_vars

\* the game loop: update is called again and again, with a positive deltaTime,
\* for a player who shoots, pauses and starts again, and does not steer
LiveInputs == [MotionInputs EXCEPT !.deltaTimes = {100}]

LiveNext ==
  \/ StartNewGame(LiveInputs)
  \/ RestartLevel(LiveInputs)
  \/ Pause
  \/ Resume
  \/ Update(LiveInputs)
  \/ MouseDownLeft(LiveInputs)

\* ENABLED <<Update(in)>>_vars as a state predicate: some call of update is
\* allowed and ends in a program state other than the present one
UpdateCanStep(in) ==
  \E dt \in in.deltaTimes :
    LET stays(c) ==
          /\ objects = c.objects
          /\ entities = c.entities
          /\ entityIdCounter = c.entityIdCounter
          /\ currentState = c.currentState
          /\ currentScore = c.currentScore
          /\ currentLevel = c.currentLevel
          /\ mousePosition = c.mousePosition
          /\ lives = c.lives
          /\ ship = c.ship
          /\ shipController = c.shipController
          /\ observed = c.observed
        drawing(plain) ==
          /\ plain.entityIdCounter = entityIdCounter \/ plain.entityIdCounter <= in.maxIds
          /\ IF plain.jittersDrawn = 0 /\ plain.positionsDrawn = 0
             THEN ~stays(collect(plain))
             ELSE \E js \in in.jitters :
                    \E ps \in in.positions :
                      ~stays(collect(GameManager_update(Program("update", js, ps), dt)))
    IN /\ (currentState = "PLAYING" /\ shipController # Null)
            => shipController.timeSinceLastShot < in.maxIdle
       /\ drawing(GameManager_update(Program("update", <<>>, <<>>), dt))

\* the loop does not stop calling update: weak fairness of Update(LiveInputs),
\* WF_vars(Update(LiveInputs)), with its ENABLED written as UpdateCanStep
LiveSpec ==
  /\ Init
  /\ [][LiveNext]_vars
  /\ \/ []<>(~UpdateCanStep(LiveInputs))
     \/ []<><<Update(LiveInputs)>>_vars

(* ------------------------- entities on their own ---------------------- *)
\* one entity outside any world, as a caller constructs it: a ship, bullets with
\* a lifetime of 1 s and of 2 s, an asteroid with a velocity and a rotation speed,
\* asteroids at rest beyond each edge of the world and on its corners;
\* and the deltaTimes, aim targets and thrust targets of the calls (the thrust
\* target lies beyond the right edge, so a thrusting ship leaves the bounds), the
\* velocities set on a ship (one above the speed limit, one at it), and the slow
\* velocities, spans and numbers of steps the drag is compared for
EntityInputs ==
  [entities |->
     {Ship(0, Vec(400, 300)),
      Asteroid(0, Vec(400, 300), Vec(1500, -900), "LARGE", 30)}
     \cup {[Bullet(0, Vec(400, 300), d) EXCEPT !.lifetime = l * TimeScale] :
             d \in {Vec(1, 0), Vec(0, -1)}, l \in {1, BulletLifetime}}
     \cup {Asteroid(0, p, ZERO, "SMALL", 0) :
             p \in {Vec(850, 300), Vec(-10, 300), Vec(400, -10), Vec(400, 650),
                    Vec(850, 650), Vec(-10, -10), Vec(0, 0), Vec(WorldWidth, WorldHeight),
                    Vec(0, WorldHeight), Vec(WorldWidth, 0)}},
   deltaTimes |-> {50, 60},
   pointers |-> {Vec(400, 500)},
   targets |-> {Vec(1000, 300)},
   velocities |-> {Vec(400 * VelScale, 300 * VelScale), Vec(ShipMaxSpeed * VelScale, 0)},
   slow |-> {Vec(100 * VelScale, 0), Vec(200 * VelScale, -100 * VelScale),
             Vec(-299 * VelScale, 0)},
   spans |-> {100, 1000},
   steps |-> {2, 10}]

\* the other variables are those of a GameManager nothing was called on
EntityInit ==
  /\ objects \in {(0 :> e) : e \in EntityInputs.entities}
  /\ entities = <<>>
  /\ entityIdCounter = 0
  /\ currentState = "READY"
  /\ currentScore = 0
  /\ currentLevel = 1
  /\ mousePosition = Null
  /\ lives = MaxLives
  /\ ship = NoShip
  /\ shipController = Null
  /\ observed = QuietAfter("constructor", [kills |-> 0, score |-> 0, restarted |-> FALSE])

\* a call on the entity that makes it e
EntityBecomes(op, e) ==
  /\ objects' = (0 :> e)
  /\ observed' = Quiet(op)
  /\ UNCHANGED <<entities, entityIdCounter, currentState, currentScore, currentLevel,
                 mousePosition, lives, ship, shipController>>

\* entity.update(deltaTime); an active entity is followed until it is out of bounds
EntityUpdate ==
  /\ objects[0].active => ~isOutOfBounds(objects[0], WorldWidth, WorldHeight)
  /\ \E dt \in EntityInputs.deltaTimes :
       EntityBecomes("entityUpdate",
                     IF objects[0].type = "SHIP" THEN Ship_update(objects[0], dt, Null)
                     ELSE IF objects[0].type = "BULLET" THEN Bullet_update(objects[0], dt)
                     ELSE Asteroid_update(objects[0], dt))

\* ship.update(deltaTime, mousePosition)
EntityUpdateAimed ==
  /\ objects[0].type = "SHIP"
  /\ objects[0].active => ~isOutOfBounds(objects[0], WorldWidth, WorldHeight)
  /\ \E dt \in EntityInputs.deltaTimes :
       \E p \in EntityInputs.pointers :
         EntityBecomes("entityUpdateAimed", Ship_update(objects[0], dt, p))

\* entity.destroy()
EntityDestroy ==
  /\ objects[0].active
  /\ EntityBecomes("entityDestroy", destroy(objects[0]))

\* entity.wrapAroundBounds(worldWidth, worldHeight); an entity in motion is
\* wrapped once it is destroyed, so that it is followed no further
EntityWrap ==
  /\ objects[0].velocity = ZERO \/ ~objects[0].active
  /\ EntityBecomes("entityWrap", wrapAroundBounds(objects[0], WorldWidth, WorldHeight))

\* ship.accelerateTowards(target)
EntityAccelerateTowards ==
  /\ objects[0].type = "SHIP"
  /\ \E p \in EntityInputs.targets :
       EntityBecomes("entityAccelerateTowards", accelerateTowards(objects[0], p))

\* ship.setVelocity(velocity), on a ship just constructed
EntitySetVelocity ==
  /\ objects[0].type = "SHIP"
  /\ observed.op = "constructor"
  /\ \E v \in EntityInputs.velocities :
       EntityBecomes("entitySetVelocity", [objects[0] EXCEPT !.velocity = v])

\* for (let i = 0; i < n; i++) { s.update(dt) }
RECURSIVE updates(_, _, _)
updates(s, dt, n) ==
  IF n <= 0 THEN s ELSE updates(Ship_update(s, dt, Null), dt, n - 1)

\* two ships like the one constructed get the same velocity, below the speed limit;
\* the test of Ship takes (100, 0), a span of 1 s and 10 steps;
\* the first is updated once by span, the second steps times by span / steps, and
\* their velocities are what is looked at
EntityCompareDrag ==
  /\ objects[0].type = "SHIP"
  /\ observed.op = "constructor"
  /\ \E v \in EntityInputs.slow :
       \E span \in EntityInputs.spans :
         \E n \in EntityInputs.steps :
           LET ship1 == [objects[0] EXCEPT !.velocity = v]
               ship2 == [objects[0] EXCEPT !.velocity = v]
           IN /\ magnitudeSquared(v) < (ShipMaxSpeed * VelScale) * (ShipMaxSpeed * VelScale)
              /\ observed' =
                   [Quiet("entityCompareDrag") EXCEPT
                      !.args = <<v, span, n>>,
                      !.result = [kind |-> "velocities",
                                  one |-> Ship_update(ship1, span, Null).velocity,
                                  many |-> updates(ship2, span \div n, n).velocity]]
              /\ UNCHANGED <<objects, entities, entityIdCounter, currentState,
                             currentScore, currentLevel, mousePosition, lives, ship,
                             shipController>>

EntityNext ==
  \/ EntitySetVelocity
  \/ EntityCompareDrag
  \/ EntityUpdate
  \/ EntityUpdateAimed
  \/ EntityDestroy
  \/ EntityWrap
  \/ EntityAccelerateTowards

EntitySpec == EntityInit /\ [][EntityNext]_vars

(* ----------------------- the classes on their own -------------------- *)
\* the ids the unit tests give the entities they construct themselves:
\* 'ship1', 'ast1', 'test_bullet'
ShipOne == 101
AstOne == 102
TestBullet == 103

MaxUnitIds == 2

\* a world with a ship at its centre and a controller, as the tests of
\* ShipController set it up, and one asteroid, as the tests of AsteroidSpawner and
\* CollisionManager add it: touching the ship (distance = sum of the radii),
\* overlapping it by 1, or far from it; the vectors, scalars and directions of
\* the calls
UnitInputs ==
  [asteroids |->
     {Asteroid(AstOne, Vec(439, 352), ZERO, "LARGE", 0),
      Asteroid(AstOne, Vec(438, 352), ZERO, "LARGE", 0),
      Asteroid(AstOne, Vec(418, 324), ZERO, "SMALL", 0),
      Asteroid(AstOne, Vec(600, 300), ZERO, "MEDIUM", 0)},
   deltaTimes |-> {10},
   jitters |-> {<<0>>},
   vectors |-> {ZERO, Vec(3, 4), Vec(-6, 8)},
   scalars |-> {0, 2, -2},
   directions |-> {ZERO, Vec(1, 0)},
   draws |-> [near : {0, 1, MaxAttempts - 2, MaxAttempts - 1, MaxAttempts, MaxAttempts + 1},
              close : {Vec(549, 300)},
              far : {Vec(550, 300)}],
   avoidPositions |-> {Null, Vec(400, 300)},
   maxIds |-> MaxUnitIds]

UnitInit ==
  /\ \E a \in UnitInputs.asteroids :
       objects = (ShipOne :> Ship(ShipOne, Vec(400, 300))) @@ (AstOne :> a)
  /\ entities = <<ShipOne, AstOne>>
  /\ entityIdCounter = 0
  /\ currentState = "READY"
  /\ currentScore = 0
  /\ currentLevel = 1
  /\ mousePosition = Null
  /\ lives = MaxLives
  /\ ship = NoShip
  /\ shipController = ShipController(ShipOne)
  /\ observed = QuietAfter("constructor", [kills |-> 0, score |-> 0, restarted |-> FALSE])

\* the program before a call op(args) on one of the classes
Call(op, args, jitters) ==
  [Program(op, jitters, <<>>) EXCEPT !.observed.args = args]

\* the program after a call that returned (or threw) r and changed nothing
Returns(op, args, r) ==
  Becomes([Call(op, args, <<>>) EXCEPT !.observed.result = r])

\* controller.fire()
UnitFire ==
  /\ entityIdCounter < UnitInputs.maxIds
  /\ Becomes(fire(Call("unitFire", <<>>, <<>>)))

\* controller.update(deltaTime), until the controller is ready to fire
UnitControllerUpdate ==
  /\ shipController.timeSinceLastShot < minTimeBetweenShots
  /\ \E dt \in UnitInputs.deltaTimes :
       Becomes(ShipController_update(Call("unitControllerUpdate", <<dt>>, <<>>), dt))

\* spawner.splitAsteroid(asteroid), for any asteroid of the world, while the
\* ids last
UnitSplitAsteroid ==
  /\ \E i \in 1..Len(entities) :
       /\ objects[entities[i]].type = "ASTEROID"
       /\ canSplit(objects[entities[i]]) =>
            entityIdCounter + SplitCount <= UnitInputs.maxIds
       /\ \E j \in UnitInputs.jitters :
            Becomes(splitAsteroid(Call("unitSplitAsteroid", <<entities[i]>>, j),
                                  objects[entities[i]]))

\* entity.destroy(), on an entity the test constructed
UnitDestroy ==
  \E id \in {ShipOne, AstOne, TestBullet} \cap DOMAIN objects :
    /\ objects[id].active
    /\ Becomes([Call("unitDestroy", <<id>>, <<>>) EXCEPT !.objects[id] = destroy(@)])

\* a.collidesWith(b) and b.collidesWith(a), for two entities of the world
UnitCollidesWith ==
  \E a \in DOMAIN objects :
    \E b \in DOMAIN objects :
      /\ a < b
      /\ Returns("unitCollidesWith", <<a, b>>,
                 [kind |-> "boolean",
                  value |-> collidesWith(objects[a], objects[b]),
                  reverse |-> collidesWith(objects[b], objects[a])])

\* what a call that gave the vector or the error r returned or threw
Outcome(r) ==
  IF Threw(r) THEN [kind |-> "error", message |-> r.error]
  ELSE [kind |-> "vector", value |-> r]

\* v.divide(scalar); the calls on vectors do not look at the world, and are made
\* before it has handed out an id
UnitDivide ==
  /\ entityIdCounter = 0
  /\ \E v \in UnitInputs.vectors :
       \E scalar \in UnitInputs.scalars :
         Returns("unitDivide", <<v, scalar>>, Outcome(divide(v, scalar)))

\* v.normalize(), the result times Unit
UnitNormalize ==
  /\ entityIdCounter = 0
  /\ \E v \in UnitInputs.vectors :
       Returns("unitNormalize", <<v>>, Outcome(normalize(v)))

\* world.addEntity(new Bullet('test_bullet', position, direction)); an error
\* thrown by normalize leaves the constructor, and nothing is added
UnitNewBullet ==
  /\ TestBullet \notin DOMAIN objects
  /\ \E direction \in UnitInputs.directions :
       LET w == Call("unitNewBullet", <<direction>>, <<>>)
       IN IF Threw(normalize(direction))
          THEN Becomes([w EXCEPT !.observed.result = Outcome(normalize(direction))])
          ELSE Becomes([addEntity(w, Bullet(TestBullet, Vec(400, 300), direction))
                          EXCEPT !.observed.result = [kind |-> "entity", id |-> TestBullet]])

\* spawner.spawnAsteroid(AsteroidSize.LARGE, avoidPosition), in a world that has
\* not handed out an id
UnitSpawnAsteroid ==
  /\ entityIdCounter = 0
  /\ \E draws \in UnitInputs.draws :
       \E avoidPosition \in UnitInputs.avoidPositions :
         LET drawn == getRandomPositionLoop(draws, avoidPosition, 0)
             w == [Call("unitSpawnAsteroid", <<avoidPosition, draws>>, <<>>)
                     EXCEPT !.positions = <<drawn.position>>]
         IN Becomes([spawnAsteroid(w, "LARGE") EXCEPT
                       !.observed.result = [kind |-> "asteroid", id |-> w.entityIdCounter,
                                            attempts |-> drawn.attempts]])

UnitNext ==
  \/ UnitFire
  \/ UnitControllerUpdate
  \/ UnitSplitAsteroid
  \/ UnitDestroy
  \/ UnitCollidesWith
  \/ UnitDivide
  \/ UnitNormalize
  \/ UnitNewBullet
  \/ UnitSpawnAsteroid

UnitSpec == UnitInit /\ [][UnitNext]_vars

(* ------------------- the game as its tests drive it -------------------- *)
\* the ids the tests of GameManager give the entities they add to the world of a
\* started game: 'collision_ast_i', 'test_bullet' and its like, 'bullet_<asteroid id>'
collisionAst(i) == 200 + i
testBullet(i) == 300 + i
bulletFor(asteroidId) == 1000 + asteroidId

MaxTestEntities == 3
TestMaxIdle == 21
TestMaxIds == 45
TestMaxRestartIds == 16

\* every asteroid of a level in a place of its own, the fifth, of level 2, on
\* top of the ship; the asteroids the tests add: on the ship, or next to it, so
\* that a child of theirs overlaps the ship and they do not; the bullets the
\* tests add: on one of these, or on the first asteroid of the level
TestInputs ==
  [deltaTimes |-> {0},
   positions |-> PositionDraws(
                   {<<Vec(100, 100), Vec(250, 100), Vec(550, 100), Vec(700, 100),
                      Vec(430, 300)>>},
                   {Vec(100, 100), Vec(250, 100), Vec(550, 100), Vec(700, 100),
                    Vec(430, 300)}),
   jitters |-> {<<0>>},
   asteroids |-> {[position |-> Vec(400, 300), size |-> "SMALL"],
                  [position |-> Vec(467, 300), size |-> "LARGE"]},
   bullets |-> {Vec(400, 300), Vec(467, 300), Vec(100, 100)},
   maxIdle |-> TestMaxIdle,
   maxIds |-> TestMaxIds,
   maxRestartIds |-> TestMaxRestartIds]

\* the entities a test has added and the world still holds
TestEntities ==
  DOMAIN objects \cap ({collisionAst(i) : i \in 0..MaxTestEntities}
                         \cup {testBullet(i) : i \in 0..MaxTestEntities})

\* world.addEntity(new Asteroid('collision_ast_i', position, Vector2D.ZERO, size)),
\* in a game in which nothing has been shot or shot at yet, before the bullets
TestAddAsteroid ==
  /\ currentState = "PLAYING"
  /\ currentScore = 0
  /\ \A id \in DOMAIN objects : id < bulletFor(0)
  /\ Cardinality(TestEntities) < MaxTestEntities
  /\ \A i \in 0..MaxTestEntities : testBullet(i) \notin DOMAIN objects
  /\ \E i \in 0..(MaxTestEntities - 1) :
       /\ collisionAst(i) \notin DOMAIN objects
       /\ \A j \in 0..(i - 1) : collisionAst(j) \in DOMAIN objects
       /\ \E a \in TestInputs.asteroids :
            Becomes(addEntity(Program("testAddAsteroid", <<>>, <<>>),
                              Asteroid(collisionAst(i), a.position, ZERO, a.size, 0)))

\* world.addEntity(new Bullet('test_bullet', position, new Vector2D(1, 0))),
\* in a game in which nothing has been shot or shot at and no ship lost yet
TestAddBullet ==
  /\ currentState = "PLAYING"
  /\ currentScore = 0
  /\ lives = MaxLives
  /\ \A id \in DOMAIN objects : id < bulletFor(0)
  /\ Cardinality(TestEntities) < MaxTestEntities
  /\ \E i \in 0..(MaxTestEntities - 1) :
       /\ testBullet(i) \notin DOMAIN objects
       /\ \A j \in 0..(i - 1) : testBullet(j) \in DOMAIN objects
       /\ \E position \in TestInputs.bullets :
            Becomes(addEntity(Program("testAddBullet", <<>>, <<>>),
                              Bullet(testBullet(i), position, Vec(1, 0))))

\* asteroids.forEach(asteroid => world.addEntity(new Bullet(`bullet_${asteroid.id}`,
\* asteroid.position.clone(), new Vector2D(1, 0)))), over the active asteroids
RECURSIVE shootAll(_, _)
shootAll(w, asteroids) ==
  IF asteroids = <<>> THEN w
  ELSE shootAll(addEntity(w, Bullet(bulletFor(Head(asteroids)),
                                    w.objects[Head(asteroids)].position, Vec(1, 0))),
                Tail(asteroids))

\* the test that shoots every asteroid adds nothing else to the world
TestShootAll ==
  /\ currentState = "PLAYING"
  /\ TestEntities = {}
  /\ activeOf([objects |-> objects], entities, "ASTEROID") # <<>>
  /\ \A id \in DOMAIN objects : bulletFor(id) \notin DOMAIN objects
  /\ Becomes(shootAll(Program("testShootAll", <<>>, <<>>),
                      activeOf([objects |-> objects], entities, "ASTEROID")))

\* gameManager.getCollisionManager().checkCollisions(), in a test that has added
\* an entity to a game in which nothing has been shot and no ship lost yet
TestCheckCollisions ==
  /\ currentState = "PLAYING"
  /\ currentScore = 0
  /\ lives = MaxLives
  /\ TestEntities # {}
  /\ \E js \in TestInputs.jitters :
       Becomes(checkCollisions(Program("checkCollisions", js, <<>>)))

TestNext ==
  \/ StartNewGame(TestInputs)
  \/ RestartLevel(TestInputs)
  \/ Update(TestInputs)
  \/ TestAddAsteroid
  \/ TestAddBullet
  \/ TestShootAll
  \/ TestCheckCollisions

TestSpec == Init /\ [][TestNext]_vars

(* ------------------------------- claims -------------------------------- *)
\* the variables of the program other than the game state
world == <<objects, entities, entityIdCounter, mousePosition, ship, shipController>>

\* the ids in the table whose entity is active and of the given type
Active(type) == activeOf([objects |-> objects], entities, type)

\* the point values the specification gives: LARGE 20, MEDIUM 50, SMALL 100
Points(size) ==
  CASE size = "LARGE" -> 20
    [] size = "MEDIUM" -> 50
    [] size = "SMALL" -> 100

\* the points of a sequence of kills
RECURSIVE KillPoints(_)
KillPoints(kills) ==
  IF kills = <<>> THEN 0 ELSE Points(Head(kills).size) + KillPoints(Tail(kills))

\* the entities with ids a and b overlap
Overlap(a, b) ==
  distanceLess(objects[a].position, objects[b].position,
               objects[a].radius + objects[b].radius)

\* C1: after startNewGame, called in any state, the state is PLAYING, the score 0,
\* the level 1, the lives 3, and the table holds exactly one active ship, at the
\* world centre, four active LARGE asteroids, and nothing else
StartNewGameResets ==
  observed.op = "startNewGame" =>
    /\ currentState = "PLAYING"
    /\ currentScore = 0
    /\ currentLevel = 1
    /\ lives = 3
    /\ Len(entities) = 5
    /\ DOMAIN objects = {entities[i] : i \in 1..Len(entities)}
    /\ Len(Active("SHIP")) = 1
    /\ objects[Active("SHIP")[1]].position = Vec(400, 300)
    /\ Len(Active("ASTEROID")) = 4
    /\ \A i \in 1..4 : objects[Active("ASTEROID")[i]].size = "LARGE"

\* startNewGame was called with points scored, a life lost and more entities in the
\* table than a new game has
StartNewGameResetsWitness ==
  /\ observed.op = "startNewGame"
  /\ observed.before.score > 0
  /\ observed.before.lives < 3
  /\ observed.before.entities > 5
  /\ currentState = "PLAYING"

\* C2: pause changes the state only from PLAYING, to PAUSED, and resume only from
\* PAUSED, to PLAYING; in every other state they change nothing, and neither ever
\* changes the score, the level, the lives or an entity
PauseResumeGuarded ==
  [][/\ observed'.op = "pause" =>
          /\ currentState' = IF currentState = "PLAYING" THEN "PAUSED" ELSE currentState
          /\ UNCHANGED <<currentScore, currentLevel, lives, world>>
     /\ observed'.op = "resume" =>
          /\ currentState' = IF currentState = "PAUSED" THEN "PLAYING" ELSE currentState
          /\ UNCHANGED <<currentScore, currentLevel, lives, world>>]_vars

\* pause was called when the game was over, with entities in the table
PauseResumeGuardedWitness ==
  /\ observed.op = "pause"
  /\ observed.before.state = "GAME_OVER"
  /\ currentState = "GAME_OVER"
  /\ Len(entities) > 0

\* C3: GAME_OVER is entered only from PLAYING, and in GAME_OVER no operation but
\* startNewGame changes the state, the score, the level or the lives
GameOverTerminal ==
  [][/\ (currentState # "GAME_OVER" /\ currentState' = "GAME_OVER")
          => currentState = "PLAYING"
     /\ (currentState = "GAME_OVER" /\ observed'.op # "startNewGame")
          => UNCHANGED <<currentState, currentScore, currentLevel, lives>>]_vars

\* restartLevel was called when the game was over and filled the table again
GameOverTerminalWitness ==
  /\ observed.op = "restartLevel"
  /\ observed.before.state = "GAME_OVER"
  /\ currentState = "GAME_OVER"
  /\ Len(Active("ASTEROID")) > 0

\* C4: update outside PLAYING changes nothing: no entity, not the table, the score,
\* the level, the lives or the fire-rate timer, and it runs no collision pass
UpdateOutsidePlaying ==
  [][(observed'.op = "update" /\ currentState # "PLAYING") =>
        /\ UNCHANGED <<currentState, currentScore, currentLevel, lives, world>>
        /\ observed'.passes = 0]_vars

\* update was called while paused with a bullet in flight and the ship alive, in
\* motion and turned
UpdateOutsidePlayingWitness ==
  /\ observed.op = "update"
  /\ observed.before.state = "PAUSED"
  /\ Len(Active("BULLET")) > 0
  /\ Len(Active("SHIP")) > 0
  /\ objects[ship].active
  /\ objects[ship].velocity # ZERO
  /\ objects[ship].rotation # 0

\* C5: every ship-destroyed callback takes exactly one life, and the state is
\* GAME_OVER after it exactly when no life is left; with lives left it is PLAYING
ShipDestroyedTakesOneLife ==
  [][observed'.op # "startNewGame" =>
       LET calls == observed'.shipsDestroyed
       IN /\ lives' = lives - Len(calls)
          /\ \A k \in 1..Len(calls) :
               /\ calls[k].lives = lives - k
               /\ calls[k].state = "GAME_OVER" <=> calls[k].lives <= 0
               /\ calls[k].lives > 0 => calls[k].state = "PLAYING"
          /\ calls # <<>> => currentState' = calls[Len(calls)].state]_vars

\* the third ship of a game was destroyed: no life is left and the game is over
ShipDestroyedTakesOneLifeWitness ==
  /\ observed.op = "update"
  /\ Len(observed.shipsDestroyed) = 1
  /\ observed.before.lives = 1
  /\ lives = 0
  /\ currentState = "GAME_OVER"

\* C6: every kill of an update deactivates its bullet and its asteroid and adds
\* exactly the asteroid's points, LARGE 20, MEDIUM 50, SMALL 100, and the score
\* of an update changes by nothing else
KillScoresPoints ==
  [][observed'.op = "update" =>
       LET kills == observed'.kills
       IN /\ \A k \in 1..Len(kills) :
               /\ ~objects'[kills[k].bullet].active
               /\ ~objects'[kills[k].asteroid].active
               /\ objects'[kills[k].asteroid].size = kills[k].size
               /\ kills[k].score =
                    (IF k = 1 THEN currentScore ELSE kills[k - 1].score)
                    + Points(kills[k].size)
          /\ currentScore' = currentScore + KillPoints(kills)]_vars

\* a SMALL asteroid was killed and the score went up by 100
KillScoresPointsWitness ==
  /\ observed.op = "update"
  /\ Len(observed.kills) = 1
  /\ observed.kills[1].size = "SMALL"
  /\ currentScore = observed.before.score + 100

\* C7: within a game the score never decreases: every operation but startNewGame
\* leaves it equal or greater
ScoreNeverDecreases ==
  [][observed'.op # "startNewGame" => currentScore' >= currentScore]_vars

\* restartLevel was called with points scored, and they are still there
ScoreNeverDecreasesWitness ==
  /\ observed.op = "restartLevel"
  /\ observed.before.score > 0
  /\ currentScore = observed.before.score

\* C8: in one collision pass no bullet kills two asteroids: the asteroids of the
\* pass that no bullet killed are still active, and only the kills add points
OneKillPerBullet ==
  observed.op = "update" =>
    /\ \A i, j \in 1..Len(observed.kills) :
         i # j => observed.kills[i].bullet # observed.kills[j].bullet
    /\ \A i \in 1..Len(observed.asteroids) :
         (\A k \in 1..Len(observed.kills) :
            observed.kills[k].asteroid # observed.asteroids[i])
         => objects[observed.asteroids[i]].active
    /\ currentScore = observed.before.score + KillPoints(observed.kills)

\* a bullet killed one asteroid while it overlapped another one of the pass, which
\* is still active
OneKillPerBulletWitness ==
  /\ observed.op = "update"
  /\ \E k \in 1..Len(observed.kills) :
       \E i \in 1..Len(observed.asteroids) :
         /\ observed.asteroids[i] # observed.kills[k].asteroid
         /\ objects[observed.asteroids[i]].active
         /\ Overlap(observed.kills[k].bullet, observed.asteroids[i])

\* C9: a ship-asteroid collision deactivates the ship and not the asteroid, adds
\* no points, and calls the ship-destroyed callback once for a ship in a pass
ShipCollisionSparesAsteroid ==
  observed.op = "update" =>
    /\ \A k \in 1..Len(observed.shipsDestroyed) :
         /\ ~objects[observed.shipsDestroyed[k].ship].active
         /\ objects[observed.shipsDestroyed[k].asteroid].active
    /\ \A i, j \in 1..Len(observed.shipsDestroyed) :
         i # j => observed.shipsDestroyed[i].ship # observed.shipsDestroyed[j].ship
    /\ observed.kills = <<>> => currentScore = observed.before.score

\* a ship that overlapped two asteroids of the pass was destroyed, once
ShipCollisionSparesAsteroidWitness ==
  /\ observed.op = "update"
  /\ Len(observed.shipsDestroyed) = 1
  /\ \E i, j \in 1..Len(observed.asteroids) :
       /\ i # j
       /\ objects[observed.asteroids[i]].active
       /\ objects[observed.asteroids[j]].active
       /\ Overlap(observed.shipsDestroyed[1].ship, observed.asteroids[i])
       /\ Overlap(observed.shipsDestroyed[1].ship, observed.asteroids[j])

\* C10: update raises the level by one exactly when, at its level check, the state
\* is PLAYING and no asteroid is active, and leaves it alone otherwise; pause,
\* resume, restartLevel and the pointer events never change the level
LevelAdvancesWhenCleared ==
  [][/\ observed'.op = "update" =>
          /\ currentLevel' =
               IF observed'.checkState = "PLAYING" /\ observed'.checkAsteroids = 0
               THEN currentLevel + 1 ELSE currentLevel
          /\ currentLevel' = currentLevel =>
               ~(currentState' = "PLAYING"
                 /\ activeOf([objects |-> objects'], entities', "ASTEROID") = <<>>)
     /\ observed'.op \notin {"update", "startNewGame"} =>
          currentLevel' = currentLevel]_vars

\* an update killed the last asteroid of level 1 and the level is 2
LevelAdvancesWhenClearedWitness ==
  /\ observed.op = "update"
  /\ observed.kills # <<>>
  /\ observed.checkState = "PLAYING"
  /\ observed.checkAsteroids = 0
  /\ observed.before.level = 1
  /\ currentLevel = 2

\* the ids in the table after a step whose entity is active and of the given type
ActiveAfter(type) == activeOf([objects |-> objects'], entities', type)

\* the set of the ids of a sequence of ids
IdsOf(ids) == {ids[i] : i \in 1..Len(ids)}

\* C11: every level N, begun by startNewGame, by a level advance or by restartLevel,
\* starts with exactly 3 + N active asteroids, all LARGE and all newly created: they
\* are the last 3 + N entities the world made; so a level that follows another
\* starts with more asteroids than that one did
LevelStartsWithAsteroids ==
  [][(\/ observed'.op \in {"startNewGame", "restartLevel"}
      \/ observed'.op = "update" /\ currentLevel' # currentLevel) =>
       LET fresh == (entityIdCounter' - (3 + currentLevel'))..(entityIdCounter' - 1)
       IN /\ Len(ActiveAfter("ASTEROID")) = 3 + currentLevel'
          /\ IdsOf(ActiveAfter("ASTEROID")) = fresh
          /\ \A id \in fresh : objects'[id].size = "LARGE"
          /\ observed'.op # "startNewGame" => \A id \in fresh : id >= entityIdCounter
          /\ currentLevel' = 1 => Len(ActiveAfter("ASTEROID")) = 4
          /\ observed'.op = "update" =>
               Len(ActiveAfter("ASTEROID")) > 3 + currentLevel]_vars

\* an update cleared level 1 and level 2 starts with five asteroids, one more than
\* level 1 started with
LevelStartsWithAsteroidsWitness ==
  /\ observed.op = "update"
  /\ observed.before.level = 1
  /\ currentLevel = 2
  /\ Len(Active("ASTEROID")) = 5
  /\ \A i \in 1..5 : objects[Active("ASTEROID")[i]].size = "LARGE"

\* C12: after startNewGame the table never holds more than one active ship
AtMostOneActiveShip == Len(Active("SHIP")) <= 1

\* C13: restartLevel leaves the level, the score, the lives and the state as they
\* are, deactivates every entity the table held, and creates exactly one active
\* ship, at the world centre with zero velocity, and 3 + level active LARGE
\* asteroids, all of them new
RestartLevelRenews ==
  [][observed'.op = "restartLevel" =>
       /\ UNCHANGED <<currentLevel, currentScore, lives, currentState>>
       /\ \A id \in IdsOf(entities) : id \in DOMAIN objects' /\ ~objects'[id].active
       /\ ActiveAfter("SHIP") = <<entityIdCounter>>
       /\ ship' = entityIdCounter
       /\ objects'[entityIdCounter].position = Vec(400, 300)
       /\ objects'[entityIdCounter].velocity = ZERO
       /\ IdsOf(ActiveAfter("ASTEROID")) =
            (entityIdCounter + 1)..(entityIdCounter + 3 + currentLevel)
       /\ \A id \in IdsOf(ActiveAfter("ASTEROID")) : objects'[id].size = "LARGE"
       /\ entityIdCounter' = entityIdCounter + 1 + 3 + currentLevel
       /\ Len(entities') = Len(entities) + 1 + 3 + currentLevel]_vars

\* restartLevel was called with points scored, a life lost and a table that held
\* more than a level's entities: the old ones are all inactive, bullets and smaller
\* asteroids among them
RestartLevelRenewsWitness ==
  /\ observed.op = "restartLevel"
  /\ observed.before.score > 0
  /\ observed.before.lives < 3
  /\ observed.before.entities > 5
  /\ \E i, j \in 1..Len(entities) :
       /\ objects[entities[i]].type = "BULLET" /\ ~objects[entities[i]].active
       /\ objects[entities[j]].type = "ASTEROID" /\ ~objects[entities[j]].active
       /\ objects[entities[j]].size # "LARGE"
  /\ Len(Active("SHIP")) = 1
  /\ Len(Active("ASTEROID")) = 4

\* C14: fire() gives a bullet exactly when the controller's timer is at least
\* 1/fireRate (0.2 s with fireRate 5), which it is for a new controller; a
\* successful fire sets the timer to 0 and a refused one changes nothing; and the
\* timer of one controller changes otherwise only by an update that leaves the
\* game PLAYING, which adds its deltaTime: two successful fires are at least
\* 1/fireRate of update time apart
FireRateLimited ==
  [][LET newController ==
           \/ observed'.op \in {"startNewGame", "restartLevel"}
           \/ currentLevel' # currentLevel
         fired ==
           /\ entityIdCounter' = entityIdCounter + 1
           /\ entities' = Append(entities, entityIdCounter)
           /\ objects'[entityIdCounter].type = "BULLET"
           /\ objects'[entityIdCounter].active
           /\ objects'[entityIdCounter].position = objects[ship].position
     IN /\ (shipController' # Null /\ newController) =>
             shipController'.timeSinceLastShot * 5 = TimeScale
        /\ (shipController # Null /\ ~newController) =>
             LET timer == shipController.timeSinceLastShot
                 timerAfter == shipController'.timeSinceLastShot
             IN /\ (observed'.op = "mouseDownLeft" /\ currentState = "PLAYING") =>
                     /\ fired <=> timer * 5 >= TimeScale
                     /\ fired => timerAfter = 0
                     /\ ~fired => UNCHANGED <<shipController, entities, objects,
                                              entityIdCounter>>
                /\ (observed'.op = "update" /\ currentState' = "PLAYING") =>
                     \E dt \in DeepInputs.deltaTimes : timerAfter = timer + dt
                /\ ~(observed'.op = "mouseDownLeft" /\ currentState = "PLAYING")
                   /\ ~(observed'.op = "update" /\ currentState' = "PLAYING")
                     => timerAfter = timer]_vars

\* a fire 0.1 s after a successful one was refused: no entity was made and the
\* timer still says 0.1 s
FireRateLimitedWitness ==
  /\ observed.op = "mouseDownLeft"
  /\ observed.before.state = "PLAYING"
  /\ observed.before.counter = entityIdCounter
  /\ shipController # Null
  /\ shipController.timeSinceLastShot = 10
  /\ objects[ship].active

\* the right-click targets of the specifications
Targets == Inputs.targets \cup DeepInputs.targets \cup MotionInputs.targets

\* C15: outside PLAYING (READY, PAUSED, GAME_OVER) mouse-down and mouse-up change
\* nothing: no bullet, the same timer, the same ship; in PLAYING left-down changes
\* at most what a fire changes, right-down sets the ship's thrust target and flag,
\* right-up clears both, left-up changes nothing
PointerIgnoredOutsidePlaying ==
  [][observed'.op \in {"mouseDownLeft", "mouseDownRight", "mouseUpLeft", "mouseUpRight"} =>
       /\ UNCHANGED <<currentState, currentScore, currentLevel, lives, mousePosition, ship>>
       /\ currentState # "PLAYING" =>
            UNCHANGED <<objects, entities, entityIdCounter, shipController>>
       /\ (currentState = "PLAYING" /\ ship # NoShip) =>
            /\ observed'.op = "mouseDownLeft" =>
                 /\ \A id \in DOMAIN objects : objects'[id] = objects[id]
                 /\ \/ UNCHANGED <<objects, entities, entityIdCounter, shipController>>
                    \/ /\ entityIdCounter' = entityIdCounter + 1
                       /\ entities' = Append(entities, entityIdCounter)
                       /\ objects'[entityIdCounter].type = "BULLET"
                       /\ shipController'.timeSinceLastShot = 0
            /\ observed'.op = "mouseDownRight" =>
                 /\ UNCHANGED <<entities, entityIdCounter, shipController>>
                 /\ \E p \in Targets :
                      objects' = [objects EXCEPT ![ship].isAccelerating = TRUE,
                                                 ![ship].targetPosition = p]
            /\ observed'.op = "mouseUpRight" =>
                 /\ UNCHANGED <<entities, entityIdCounter, shipController>>
                 /\ objects' = [objects EXCEPT ![ship].isAccelerating = FALSE,
                                                ![ship].targetPosition = Null]
            /\ observed'.op = "mouseUpLeft" =>
                 UNCHANGED <<objects, entities, entityIdCounter, shipController>>]_vars

\* the right button was released while the game was paused and the ship was
\* thrusting: it still is
PointerIgnoredOutsidePlayingWitness ==
  /\ observed.op = "mouseUpRight"
  /\ observed.before.state = "PAUSED"
  /\ currentState = "PAUSED"
  /\ objects[ship].active
  /\ objects[ship].isAccelerating
  /\ objects[ship].targetPosition # Null

\* C16: GameManager.getShip() is null or an active ship of the table, and a click
\* when the manager's ship has been destroyed creates no bullet and sets no thrust
PointerActsOnLiveShipOnly ==
  [][/\ ship' # NoShip => (objects'[ship'].active /\ ship' \in IdsOf(entities'))
     /\ (/\ observed'.op \in {"mouseDownLeft", "mouseDownRight"}
         /\ ship # NoShip
         /\ ~objects[ship].active)
          => UNCHANGED <<objects, entities, entityIdCounter>>]_vars

\* C17: an entity that is inactive when an update is called in PLAYING is not in
\* the table after that update, whatever deactivated it; and no operation makes
\* an inactive entity active again (startNewGame empties the table and starts the
\* ids again, so its entities are new ones)
InactiveRemovedNeverRevived ==
  [][/\ (observed'.op = "update" /\ currentState = "PLAYING") =>
          \A id \in IdsOf(entities) :
            ~objects[id].active => id \notin IdsOf(entities')
     /\ observed'.op # "startNewGame" =>
          \A id \in DOMAIN objects \cap DOMAIN objects' :
            ~objects[id].active => ~objects'[id].active]_vars

\* an update in PLAYING took entities out of the table, and the ship it destroyed
\* in its collision pass is inactive and still in the table
InactiveRemovedNeverRevivedWitness ==
  /\ observed.op = "update"
  /\ observed.before.state = "PLAYING"
  /\ Len(entities) < observed.before.entities
  /\ observed.shipsDestroyed # <<>>
  /\ \E i \in 1..Len(entities) :
       objects[entities[i]].type = "SHIP" /\ ~objects[entities[i]].active

\* C18: an update of an active bullet adds deltaTime to its age and leaves it
\* active exactly when the age is then less than the lifetime, so it deactivates
\* in the update in which the age first reaches the lifetime; an update of an
\* inactive bullet changes neither age nor position
BulletLivesItsLifetime ==
  [][(observed'.op = "entityUpdate" /\ objects[0].type = "BULLET") =>
       LET b == objects[0]
           a == objects'[0]
       IN /\ a.lifetime = b.lifetime
          /\ b.active =>
               /\ \E dt \in EntityInputs.deltaTimes : a.age = b.age + dt
               /\ b.age < b.lifetime
               /\ a.active <=> a.age < a.lifetime
          /\ ~b.active =>
               /\ ~a.active
               /\ a.age = b.age
               /\ a.position = b.position]_vars

\* a bullet with a lifetime of 1 s is inactive after update(0.5) and update(0.6),
\* and it has moved for 1.1 s
BulletLivesItsLifetimeWitness ==
  /\ observed.op = "entityUpdate"
  /\ objects[0].type = "BULLET"
  /\ objects[0].lifetime = 100
  /\ objects[0].age = 110
  /\ ~objects[0].active
  /\ objects[0].position = Vec(950, 300)

\* C20: update on an inactive ship, bullet or asteroid, with any deltaTime and
\* with or without an aim target, leaves its position, velocity, rotation and age
\* as they are
InactiveEntityIgnoresUpdate ==
  [][(observed'.op \in {"entityUpdate", "entityUpdateAimed"} /\ ~objects[0].active) =>
       /\ objects'[0].position = objects[0].position
       /\ objects'[0].velocity = objects[0].velocity
       /\ objects'[0].rotation = objects[0].rotation
       /\ objects[0].type = "BULLET" => objects'[0].age = objects[0].age
       /\ ~objects'[0].active]_vars

\* update was called with an aim target on a destroyed ship that is in motion,
\* thrusting, and not turned towards the target
InactiveEntityIgnoresUpdateWitness ==
  /\ observed.op = "entityUpdateAimed"
  /\ objects[0].type = "SHIP"
  /\ ~objects[0].active
  /\ objects[0].velocity # ZERO
  /\ objects[0].isAccelerating
  /\ objects[0].rotation = 0

\* an asteroid of the given size and all the descendants the specification gives
\* it with splitCount 2: SMALL 1, MEDIUM 1 + 2, LARGE 1 + 2 + 4
Lineage(size) ==
  CASE size = "SMALL" -> 1
    [] size = "MEDIUM" -> 3
    [] size = "LARGE" -> 7

\* the asteroids with the given ids and all their descendants to come
RECURSIVE Lineages(_, _)
Lineages(objs, ids) ==
  IF ids = <<>> THEN 0 ELSE Lineage(objs[Head(ids)].size) + Lineages(objs, Tail(ids))

\* the kills among kills of an asteroid that is not SMALL
RECURSIVE Splits(_)
Splits(kills) ==
  IF kills = <<>> THEN 0
  ELSE (IF Head(kills).size = "SMALL" THEN 0 ELSE 1) + Splits(Tail(kills))

\* C19: a kill of a LARGE asteroid adds exactly two MEDIUM asteroids to the world,
\* of a MEDIUM exactly two SMALL, of a SMALL none, and an update creates no other
\* asteroid unless it starts a level; so every kill takes exactly one from the
\* asteroids still to be destroyed, a LARGE one counting for 1 + 2 + 4, and when
\* that count is 0 no asteroid is active
SplitMakesSmaller ==
  [][observed'.op = "update" =>
       LET kills == observed'.kills
           advanced == currentLevel' # currentLevel
           childrenOf(k) ==
             LET first == entityIdCounter + 2 * Splits(SubSeq(kills, 1, k - 1))
             IN first..(first + 1)
       IN /\ \A k \in 1..Len(kills) :
               kills[k].size # "SMALL" =>
                 \A id \in childrenOf(k) :
                   /\ id \in IdsOf(entities')
                   /\ objects'[id].type = "ASTEROID"
                   /\ objects'[id].active
                   /\ objects'[id].size =
                        (IF kills[k].size = "LARGE" THEN "MEDIUM" ELSE "SMALL")
          /\ entityIdCounter' = entityIdCounter + 2 * Splits(kills)
                                 + (IF advanced THEN 1 + 3 + currentLevel' ELSE 0)
          /\ ~advanced =>
               Lineages(objects', ActiveAfter("ASTEROID"))
                 = Lineages(objects, Active("ASTEROID")) - Len(kills)
          /\ advanced => Lineages(objects, Active("ASTEROID")) = Len(kills)
          /\ Lineages(objects', ActiveAfter("ASTEROID")) = 0
               => ActiveAfter("ASTEROID") = <<>>]_vars

\* the last SMALL asteroid of level 1 was killed: its four LARGE asteroids and all
\* their descendants, 8 MEDIUM and 16 SMALL, gave 4 * (20 + 2 * 50 + 4 * 100)
\* points, and none of them is active
SplitMakesSmallerWitness ==
  /\ observed.op = "update"
  /\ observed.kills # <<>>
  /\ observed.kills[Len(observed.kills)].size = "SMALL"
  /\ observed.before.level = 1
  /\ currentLevel = 2
  /\ currentScore = 4 * (20 + 2 * 50 + 4 * 100)
  /\ \A i \in 1..Len(Active("ASTEROID")) :
       Active("ASTEROID")[i] >= observed.before.counter

\* C21: Asteroid.update leaves the position and the rotation of an asteroid as
\* they are, whatever velocity and rotation speed it was constructed with
AsteroidUpdateFixed ==
  [][(observed'.op = "entityUpdate" /\ objects[0].type = "ASTEROID") =>
       /\ objects'[0].position = objects[0].position
       /\ objects'[0].rotation = objects[0].rotation]_vars

\* p lies in the world, edges included
InWorld(p) == p.x >= 0 /\ p.x <= 800 /\ p.y >= 0 /\ p.y <= 600

WrapAroundBoundsMaps ==
  [][observed'.op = "entityWrap" =>
       LET p == objects[0].position
           q == objects'[0].position
       IN /\ q.x = (IF p.x < 0 THEN 800 ELSE IF p.x > 800 THEN 0 ELSE p.x)
          /\ q.y = (IF p.y < 0 THEN 600 ELSE IF p.y > 600 THEN 0 ELSE p.y)
          /\ InWorld(q)
          /\ InWorld(p) => q = p
          /\ observed.op = "entityWrap" => q = p
          /\ objects'[0] = [objects[0] EXCEPT !.position = q]]_vars

\* a ship that flew to the right, over the edge at x = 800, is at x = 0 after the
\* wrap, with the velocity it had
WrapAroundBoundsMapsWitness ==
  /\ observed.op = "entityWrap"
  /\ objects[0].type = "SHIP"
  /\ objects[0].position = Vec(0, 300)
  /\ objects[0].velocity.x > 0
  /\ objects[0].velocity.y = 0

\* the deltaTimes of the specifications
DeltaTimes == Inputs.deltaTimes \cup DeepInputs.deltaTimes \cup MotionInputs.deltaTimes

\* C24: after an update in PLAYING every active ship and every active asteroid of
\* the table, those created in the update too, lies in the world; every bullet
\* that was active before it has moved by its velocity times deltaTime, rounded
\* to the unit of position, and by
\* nothing else; and every bullet of the table that lies more than 100 beyond an
\* edge is inactive
WrappedAndCulled ==
  [][(observed'.op = "update" /\ currentState = "PLAYING") =>
       /\ \A id \in IdsOf(ActiveAfter("SHIP")) \cup IdsOf(ActiveAfter("ASTEROID")) :
            InWorld(objects'[id].position)
       /\ \E dt \in DeltaTimes :
            \A id \in DOMAIN objects \cap DOMAIN objects' :
              (objects[id].type = "BULLET" /\ objects[id].active) =>
                /\ objects'[id].position.x = objects[id].position.x
                     + RoundDiv(objects[id].velocity.x * dt, VelScale * TimeScale)
                /\ objects'[id].position.y = objects[id].position.y
                     + RoundDiv(objects[id].velocity.y * dt, VelScale * TimeScale)
       /\ \A id \in IdsOf(entities') :
            (/\ objects'[id].type = "BULLET"
             /\ \/ objects'[id].position.x < -100
                \/ objects'[id].position.x > 900
                \/ objects'[id].position.y < -100
                \/ objects'[id].position.y > 700)
              => ~objects'[id].active]_vars

\* an update in PLAYING took the ship over the top edge to y = 600, and a bullet
\* it had fired downwards is at y > 700, where it is, inactive
WrappedAndCulledWitness ==
  /\ observed.op = "update"
  /\ observed.before.state = "PLAYING"
  /\ ship # NoShip
  /\ objects[ship].active
  /\ objects[ship].position.y = 600
  /\ objects[ship].velocity.y < 0
  /\ \E i \in 1..Len(entities) :
       /\ objects[entities[i]].type = "BULLET"
       /\ ~objects[entities[i]].active
       /\ objects[entities[i]].position.y > 700

\* the result r is an error that was thrown
Raised(r) == "kind" \in DOMAIN r /\ r.kind = "error"

\* C25: a.collidesWith(b) and b.collidesWith(a) give the same value; the value is
\* true exactly when both entities are active and the distance of the centres is
\* strictly less than the sum of the radii; and the call changes neither entity
CollidesWithExactly ==
  [][observed'.op = "unitCollidesWith" =>
       LET a == objects[observed'.args[1]]
           b == objects[observed'.args[2]]
           dx == a.position.x - b.position.x
           dy == a.position.y - b.position.y
           sum == a.radius + b.radius
       IN /\ observed'.result.value = observed'.result.reverse
          /\ observed'.result.value
               = (a.active /\ b.active /\ dx * dx + dy * dy < sum * sum)
          /\ objects' = objects
          /\ entities' = entities]_vars

\* the ship and the asteroid, both active, with their centres exactly the sum of
\* their radii apart, were asked and do not collide
CollidesWithExactlyWitness ==
  /\ observed.op = "unitCollidesWith"
  /\ observed.args = <<ShipOne, AstOne>>
  /\ objects[ShipOne].active
  /\ objects[AstOne].active
  /\ magnitudeSquared(subtract(objects[ShipOne].position, objects[AstOne].position))
       = (objects[ShipOne].radius + objects[AstOne].radius)
           * (objects[ShipOne].radius + objects[AstOne].radius)
  /\ observed.result.value = FALSE
  /\ observed.result.reverse = FALSE

\* C26: a fire() less than 1/5 s after the last shot returns null and leaves the
\* entities, the table, the id counter and the controller's timer as they were;
\* splitAsteroid on a SMALL asteroid returns the empty list and leaves the
\* entities, the table and the id counter as they were; collidesWith with an
\* inactive entity returns false; and none of the three throws
RefusalsChangeNothing ==
  [][/\ (observed'.op = "unitFire" /\ 5 * shipController.timeSinceLastShot < TimeScale) =>
          /\ observed'.result = Null
          /\ UNCHANGED <<objects, entities, entityIdCounter, shipController>>
     /\ (observed'.op = "unitSplitAsteroid" /\ objects[observed'.args[1]].size = "SMALL") =>
          /\ observed'.result = [kind |-> "asteroids", ids |-> <<>>]
          /\ UNCHANGED <<objects, entities, entityIdCounter>>
     /\ (/\ observed'.op = "unitCollidesWith"
         /\ \/ ~objects[observed'.args[1]].active
            \/ ~objects[observed'.args[2]].active) =>
          /\ observed'.result.value = FALSE
          /\ observed'.result.reverse = FALSE
     /\ observed'.op \in {"unitFire", "unitSplitAsteroid", "unitCollidesWith"} =>
          ~Raised(observed'.result)]_vars

\* splitAsteroid was called on a SMALL asteroid, a child of a split, after ids had
\* been handed out, and returned the empty list
RefusalsChangeNothingWitness ==
  /\ observed.op = "unitSplitAsteroid"
  /\ objects[observed.args[1]].size = "SMALL"
  /\ observed.args[1] < observed.before.counter
  /\ observed.before.counter > 0
  /\ entityIdCounter = observed.before.counter
  /\ observed.result = [kind |-> "asteroids", ids |-> <<>>]

\* C27: divide by the scalar 0 throws 'Cannot divide by zero' and gives no vector,
\* divide by another scalar gives a vector; normalize never throws, and gives
\* the zero vector for the zero vector; a Bullet constructed with the zero
\* vector for its direction is constructed, and added to the world, without an
\* error, and its velocity is zero
DivideByZeroThrows ==
  [][/\ observed'.op = "unitDivide" =>
          IF observed'.args[2] = 0
          THEN observed'.result = [kind |-> "error", message |-> "Cannot divide by zero"]
          ELSE /\ observed'.result.kind = "vector"
               /\ Abs(observed'.result.value.x * observed'.args[2] - observed'.args[1].x)
                    <= Abs(observed'.args[2])
               /\ Abs(observed'.result.value.y * observed'.args[2] - observed'.args[1].y)
                    <= Abs(observed'.args[2])
     /\ observed'.op = "unitNormalize" =>
          /\ observed'.result.kind = "vector"
          /\ observed'.args[1] = Vec(0, 0) => observed'.result.value = Vec(0, 0)
     /\ (observed'.op = "unitNewBullet" /\ observed'.args[1] = Vec(0, 0)) =>
          /\ observed'.result = [kind |-> "entity", id |-> TestBullet]
          /\ TestBullet \in DOMAIN objects'
          /\ objects'[TestBullet].type = "BULLET"
          /\ objects'[TestBullet].active
          /\ objects'[TestBullet].velocity = Vec(0, 0)]_vars

\* a vector was divided by 0, and the error was thrown, in a world that holds a
\* bullet constructed with the zero vector for its direction, at rest
DivideByZeroThrowsWitness ==
  /\ observed.op = "unitDivide"
  /\ observed.args[2] = 0
  /\ Raised(observed.result)
  /\ TestBullet \in DOMAIN objects
  /\ objects[TestBullet].velocity = Vec(0, 0)
  /\ objects[TestBullet].active

\* C28: the table never holds an id twice, and every id in it came from the
\* counter; an operation other than startNewGame (the only caller of reset) never
\* lowers the counter, every entity it adds to the table has an id the counter
\* gave in it, one entity for each id given, and the entries it keeps, inactive
\* ones too, are the entities they were; startNewGame takes the counter to 0,
\* clears the table and fills it with one entity for each id given since
IdsNeverShared ==
  [][/\ \A i, j \in 1..Len(entities') : entities'[i] = entities'[j] => i = j
     /\ \A id \in IdsOf(entities') : id >= 0 /\ id < entityIdCounter'
     /\ observed'.op # "startNewGame" =>
          /\ entityIdCounter' >= entityIdCounter
          /\ IdsOf(entities') \ IdsOf(entities) = entityIdCounter..(entityIdCounter' - 1)
          /\ \A id \in IdsOf(entities') \cap IdsOf(entities) :
               /\ objects'[id].type = objects[id].type
               /\ objects'[id].active => objects[id].active
     /\ observed'.op = "startNewGame" =>
          IdsOf(entities') = 0..(entityIdCounter' - 1)]_vars

\* an update split an asteroid while a destroyed bullet of a lower id was still in
\* the table: two ids were given, two entities added, the bullet's entry kept
IdsNeverSharedWitness ==
  /\ observed.op = "update"
  /\ entityIdCounter = observed.before.counter + SplitCount
  /\ Len(entities) = observed.before.entities + SplitCount
  /\ \E i \in 1..Len(entities) :
       /\ objects[entities[i]].type = "BULLET"
       /\ ~objects[entities[i]].active
       /\ entities[i] < observed.before.counter

\* the rounding of a velocity the speed limit rescaled, in units of velocity: each
\* component of the unit vector is rounded to 1 / Unit, and is multiplied by
\* maxSpeed * VelScale = 3 * Unit
SpeedTolerance == (ShipMaxSpeed * VelScale) \div Unit

\* C29: after a Ship.update on an active ship, whatever its velocity and whether
\* it thrusts or not, the speed is at most maxSpeed within the tolerance; if the
\* velocity after thrust and drag is faster than maxSpeed, the new velocity has
\* the magnitude maxSpeed within the tolerance and the direction of that
\* velocity, and otherwise it is that velocity
SpeedLimited ==
  [][(/\ observed'.op \in {"entityUpdate", "entityUpdateAimed"}
      /\ objects[0].type = "SHIP"
      /\ objects[0].active) =>
       LET max == 300 * VelScale
           v == objects'[0].velocity
       IN /\ magnitudeSquared(v) <= (max + SpeedTolerance) * (max + SpeedTolerance)
          /\ \E dt \in EntityInputs.deltaTimes :
               LET computed == multiply(thrust(objects[0], dt), dragPow(dt), DragScale)
               IN IF magnitudeSquared(computed) > max * max
                  THEN /\ magnitudeSquared(v)
                           >= (max - SpeedTolerance) * (max - SpeedTolerance)
                       /\ computed.x * v.x + computed.y * v.y > 0
                       /\ Abs(computed.x * v.y - computed.y * v.x)
                            <= SpeedTolerance * (Abs(computed.x) + Abs(computed.y))
                  ELSE v = computed]_vars

\* a ship that was given the velocity (400, 300), of speed 500, was updated without
\* thrust, and flies on at the speed 300 in the same direction
SpeedLimitedWitness ==
  /\ observed.op = "entityUpdate"
  /\ objects[0].type = "SHIP"
  /\ objects[0].active
  /\ ~objects[0].isAccelerating
  /\ objects[0].velocity = Vec(240 * VelScale, 180 * VelScale)

\* the rounding of the drag factor and of the velocity: one unit of velocity,
\* 1 / VelScale of a world unit per second
DragTolerance == 1

\* C30: without thrust and below the speed limit, one update by a span and n
\* updates by span / n, from the same velocity, give the same velocity within the
\* tolerance, which is the velocity times 0.98 ^ span within the tolerance
DragFramerateIndependent ==
  [][observed'.op = "entityCompareDrag" =>
       LET v == observed'.args[1]
           span == observed'.args[2]
           n == observed'.args[3]
           one == observed'.result.one
           many == observed'.result.many
           decayed(c, seconds) == IF seconds = 1 THEN (c * 98) \div 100
                                  ELSE (c * 817) \div 1000
       IN /\ Abs(one.x - many.x) <= DragTolerance
          /\ Abs(one.y - many.y) <= DragTolerance
          /\ Abs(one.x - decayed(v.x, span \div TimeScale)) <= DragTolerance
          /\ Abs(one.y - decayed(v.y, span \div TimeScale)) <= DragTolerance]_vars

\* the comparison of the test: the velocity (100, 0), one update of 1 s against
\* ten of 0.1 s, both ending at (98, 0)
DragFramerateIndependentWitness ==
  /\ observed.op = "entityCompareDrag"
  /\ observed.args = <<Vec(100 * VelScale, 0), TimeScale, 10>>
  /\ observed.result.one = Vec(98 * VelScale, 0)
  /\ observed.result.many = Vec(98 * VelScale, 0)

\* C31: an update in PLAYING runs the collision handler once, on a table without
\* inactive entities; it removes from the table every entity that was inactive
\* before it and, of those that were active, only bullets whose lifetime their
\* update ended; the bullets and asteroids the handler killed, the ships it
\* destroyed and the bullets culled out of bounds are in the table after it,
\* inactive, and nothing else in the table is inactive; and no other operation
\* but startNewGame, which clears the table, takes an entity from the table or
\* revives one
UpdateRemovesThenCollides ==
  [][LET playing == observed'.op = "update" /\ currentState = "PLAYING"
         killed == {observed'.kills[k].bullet : k \in DOMAIN observed'.kills}
                     \cup {observed'.kills[k].asteroid : k \in DOMAIN observed'.kills}
                     \cup {observed'.shipsDestroyed[k].ship :
                             k \in DOMAIN observed'.shipsDestroyed}
     IN /\ playing =>
             /\ observed'.passes = 1
             /\ observed'.inactiveAtPass = 0
             /\ \A id \in IdsOf(entities) :
                  IF ~objects[id].active THEN id \notin IdsOf(entities')
                  ELSE id \notin IdsOf(entities') =>
                         /\ objects[id].type = "BULLET"
                         /\ \E dt \in DeltaTimes :
                              objects[id].age + dt >= objects[id].lifetime
             /\ \A id \in killed : id \in IdsOf(entities') /\ ~objects'[id].active
             /\ \A id \in IdsOf(entities') :
                  ~objects'[id].active =>
                    \/ id \in killed
                    \/ /\ objects'[id].type = "BULLET"
                       /\ isOutOfBounds(objects'[id], 800, 600)
        /\ (~playing /\ observed'.op # "startNewGame") =>
             \A id \in IdsOf(entities) :
               /\ id \in IdsOf(entities')
               /\ ~objects[id].active => ~objects'[id].active]_vars

\* an update in PLAYING removed an inactive entity, killed an asteroid with a
\* bullet and left both in the table, inactive
UpdateRemovesThenCollidesWitness ==
  /\ observed.op = "update"
  /\ observed.before.state = "PLAYING"
  /\ observed.passes = 1
  /\ Len(observed.kills) > 0
  /\ Len(entities) < observed.before.entities + SplitCount * Len(observed.kills)
  /\ \E i, j \in 1..Len(entities) :
       /\ entities[i] = observed.kills[1].bullet
       /\ entities[j] = observed.kills[1].asteroid
       /\ ~objects[entities[i]].active
       /\ ~objects[entities[j]].active

\* the asteroids of the table that came into objs after before: when no level
\* started, the children of the asteroids that were split
Born(before, after, objs) ==
  {id \in IdsOf(after) \ IdsOf(before) : objs[id].type = "ASTEROID"}

\* C32: every asteroid a collision pass kills, and every asteroid that destroys a
\* ship in it, was in the table when the update began and among the active
\* asteroids when the pass began, so none is a child of the pass; the children
\* of the pass, SplitCount to a split, are all active after it, whatever they
\* overlap
ChildrenSitOut ==
  [][observed'.op = "update" =>
       /\ \A k \in 1..Len(observed'.kills) :
            /\ observed'.kills[k].asteroid \in IdsOf(entities)
            /\ \E i \in 1..Len(observed'.asteroids) :
                 observed'.asteroids[i] = observed'.kills[k].asteroid
       /\ \A k \in 1..Len(observed'.shipsDestroyed) :
            /\ observed'.shipsDestroyed[k].asteroid \in IdsOf(entities)
            /\ \E i \in 1..Len(observed'.asteroids) :
                 observed'.asteroids[i] = observed'.shipsDestroyed[k].asteroid
       /\ currentLevel' = currentLevel =>
            /\ \A id \in Born(entities, entities', objects') : objects'[id].active
            /\ Cardinality(Born(entities, entities', objects'))
                 = SplitCount * Splits(observed'.kills)]_vars

\* a pass killed an asteroid whose child overlaps a ship or a bullet that no
\* asteroid of the pass destroyed and that is still active after it
ChildrenSitOutWitness ==
  /\ observed.op = "update"
  /\ currentLevel = observed.before.level
  /\ Len(observed.kills) > 0
  /\ \E child \in IdsOf(entities) :
       /\ objects[child].type = "ASTEROID"
       /\ child >= observed.before.counter
       /\ child < entityIdCounter
       /\ \E i \in 1..Len(entities) :
            /\ objects[entities[i]].type \in {"SHIP", "BULLET"}
            /\ objects[entities[i]].active
            /\ Overlap(entities[i], child)

MaxOrdered == 5

\* the orders a list can be iterated in
RECURSIVE OrdersOf(_)
OrdersOf(ids) ==
  IF ids = {} THEN {<<>>}
  ELSE UNION {{<<id>> \o order : order \in OrdersOf(ids \ {id})} : id \in ids}

Orders(list) == OrdersOf(IdsOf(list))

\* the pairs of a ship or a bullet and an asteroid that collide, among the active
\* entities of the table
Colliding ==
  {pair \in (IdsOf(Active("SHIP")) \cup IdsOf(Active("BULLET"))) \X IdsOf(Active("ASTEROID")) :
     collidesWith(objects[pair[1]], objects[pair[2]])}

\* what a pass leaves behind, whatever ids it gave the asteroids it created: the
\* entities that were there, the places and sizes of the new ones, the score,
\* the lives, the state, the level and the counter
PassOutcome(w, old) ==
  [old |-> [id \in old |-> w.objects[id]],
   new |-> {[position |-> w.objects[id].position, size |-> w.objects[id].size,
             active |-> w.objects[id].active] : id \in IdsOf(w.entities) \ old},
   entities |-> Len(w.entities),
   score |-> w.currentScore,
   lives |-> w.lives,
   state |-> w.currentState,
   level |-> w.currentLevel,
   counter |-> w.entityIdCounter]

\* C33: when no entity is in two of the colliding pairs, a collision pass leaves
\* the same behind in whatever order its loops go through the bullets and the
\* asteroids: the same entities active and inactive, the same children, score,
\* lives and state (jitter being the same for every child)
PassOrderIndependent ==
  [][(/\ observed'.op = "checkCollisions"
      /\ Len(Active("ASTEROID")) <= MaxOrdered
      /\ Len(Active("BULLET")) <= MaxOrdered
      /\ Cardinality(Colliding) >= 2
      /\ \A p, q \in Colliding : p # q => (p[1] # q[1] /\ p[2] # q[2]))
     => \A after \in {PassOutcome([objects |-> objects', entities |-> entities',
                                    currentScore |-> currentScore', lives |-> lives',
                                    currentState |-> currentState',
                                    currentLevel |-> currentLevel',
                                    entityIdCounter |-> entityIdCounter'],
                                   IdsOf(entities))} :
          \A w \in {Program("checkCollisions", <<0>>, <<>>)} :
            \A bullets \in Orders(Active("BULLET")) :
              \A asteroids \in Orders(Active("ASTEROID")) :
                \A w2 \in {bulletAsteroidLoop(w, pairsOf(bullets, asteroids))} :
                  \A w3 \in {shipAsteroidLoop(w2, pairsOf(Active("SHIP"), asteroids))} :
                    PassOutcome(w3, IdsOf(entities)) = after]_vars

\* a pass resolved two bullet-asteroid collisions of four different entities, the
\* second bullet in the table hitting an asteroid that comes before the one the
\* first bullet hit
PassOrderIndependentWitness ==
  /\ observed.op = "checkCollisions"
  /\ Len(observed.kills) = 2
  /\ Len(observed.asteroids) <= MaxOrdered
  /\ observed.kills[1].bullet # observed.kills[2].bullet
  /\ observed.kills[1].asteroid > observed.kills[2].asteroid

\* C34: spawnAsteroid returns after at most MaxAttempts (50) draws of a position:
\* without an avoid position after exactly one; with one, at the first draw that
\* is at least MinDistanceFromShip from it, every draw before it being closer,
\* or at the 50th draw, whatever its distance; the position it returns is the
\* last draw, lies within the world, and is that of the one asteroid it added
SpawnAsteroidDraws ==
  [][observed'.op = "unitSpawnAsteroid" =>
       LET avoidPosition == observed'.args[1]
           draws == observed'.args[2]
           attempts == observed'.result.attempts
           asteroid == objects'[observed'.result.id]
           tooClose(p) == distanceLess(p, avoidPosition, MinDistanceFromShip)
       IN /\ attempts \in 1..MaxAttempts
          /\ avoidPosition = Null => attempts = 1
          /\ avoidPosition # Null =>
               /\ \A i \in 1..(attempts - 1) : tooClose(drawAt(draws, i))
               /\ attempts < MaxAttempts => ~tooClose(drawAt(draws, attempts))
          /\ asteroid.position = drawAt(draws, attempts)
          /\ asteroid.position.x \in 0..WorldWidth
          /\ asteroid.position.y \in 0..WorldHeight
          /\ asteroid.type = "ASTEROID" /\ asteroid.active
          /\ entities' = Append(entities, observed'.result.id)
          /\ \A id \in IdsOf(entities) : objects'[id] = objects[id]]_vars

\* spawnAsteroid took its 50th draw although it was too close to the position to
\* avoid
SpawnAsteroidDrawsWitness ==
  /\ observed.op = "unitSpawnAsteroid"
  /\ observed.args[1] # Null
  /\ observed.result.attempts = MaxAttempts
  /\ distanceLess(objects[observed.result.id].position, observed.args[1],
                  MinDistanceFromShip)

\* C35: once a game has been started, the lives are between 0 and 3, and the
\* state is GAME_OVER exactly when they are 0; they are never negative
LivesWithinRange ==
  observed.op # "constructor" =>
    /\ lives \in 0..MaxLives
    /\ currentState = "GAME_OVER" <=> lives = 0

\* the operations that run a collision pass
Passes == {"update", "checkCollisions"}

\* C36: an asteroid is killed at most once: every asteroid a pass kills was
\* active before it and is inactive after it, no two kills of a pass are of the
\* same asteroid, and no operation of a game makes an inactive asteroid active
\* again (startNewGame begins with a new table and new ids); each
\* kill adds the points of its asteroid once and SplitCount children or none;
\* an active bullet that overlaps an asteroid another bullet killed, and killed
\* nothing itself, is still active
AsteroidDiesOnce ==
  [][/\ observed'.op # "startNewGame" =>
          \A id \in IdsOf(entities) \cap IdsOf(entities') :
            (objects[id].type = "ASTEROID" /\ ~objects[id].active) => ~objects'[id].active
     /\ observed'.op \in Passes =>
          /\ \A k \in 1..Len(observed'.kills) :
               /\ observed'.kills[k].asteroid \in IdsOf(entities)
               /\ objects[observed'.kills[k].asteroid].active
               /\ ~objects'[observed'.kills[k].asteroid].active
               /\ ~objects'[observed'.kills[k].bullet].active
               /\ \A j \in 1..Len(observed'.kills) :
                    j # k => observed'.kills[j].asteroid # observed'.kills[k].asteroid
               /\ \A b \in IdsOf(entities) \cap IdsOf(entities') :
                    (/\ objects[b].type = "BULLET"
                     /\ objects[b].active
                     /\ \A j \in 1..Len(observed'.kills) : observed'.kills[j].bullet # b
                     /\ distanceLess(objects'[b].position,
                                     objects'[observed'.kills[k].asteroid].position,
                                     objects'[b].radius
                                       + objects'[observed'.kills[k].asteroid].radius)
                     /\ ~isOutOfBounds(objects'[b], WorldWidth, WorldHeight))
                    => objects'[b].active
          /\ currentScore' = currentScore + KillPoints(observed'.kills)
          /\ currentLevel' = currentLevel =>
               Cardinality(Born(entities, entities', objects'))
                 = SplitCount * Splits(observed'.kills)]_vars

\* two bullets overlapped the same asteroid in a pass: one of them killed it, the
\* other one is still active, and the score went up by the points of that
\* asteroid alone
AsteroidDiesOnceWitness ==
  /\ observed.op \in Passes
  /\ Len(observed.kills) = 1
  /\ currentScore = observed.before.score + Points(observed.kills[1].size)
  /\ \E b \in IdsOf(entities) :
       /\ objects[b].type = "BULLET"
       /\ objects[b].active
       /\ b # observed.kills[1].bullet
       /\ Overlap(b, observed.kills[1].asteroid)

\* the asteroids of a pass that its bullets killed
Killed(kills) == {kills[k].asteroid : k \in 1..Len(kills)}

\* C37: no asteroid that a bullet kills in a pass destroys a ship in that pass; a
\* ship that was active is inactive after the pass exactly when it overlaps an
\* asteroid of the pass that no bullet killed, and the pass takes one life for
\* each such ship; so a ship that overlaps only asteroids the bullets killed
\* stays active, and no life is lost for it
BulletsBeforeShips ==
  [][observed'.op \in Passes =>
       /\ \A k \in 1..Len(observed'.shipsDestroyed) :
            observed'.shipsDestroyed[k].asteroid \notin Killed(observed'.kills)
       /\ \A s \in IdsOf(entities) \cap IdsOf(entities') :
            (objects[s].type = "SHIP" /\ objects[s].active) =>
              (objects'[s].active <=>
                 \A i \in 1..Len(observed'.asteroids) :
                   distanceLess(objects'[s].position,
                                objects'[observed'.asteroids[i]].position,
                                objects'[s].radius + objects'[observed'.asteroids[i]].radius)
                   => observed'.asteroids[i] \in Killed(observed'.kills))
       /\ lives' = lives - Len(observed'.shipsDestroyed)]_vars

\* a bullet killed an asteroid that overlapped the ship, in a pass that destroyed
\* no ship: the ship is active and the lives are what they were
BulletsBeforeShipsWitness ==
  /\ observed.op \in Passes
  /\ observed.shipsDestroyed = <<>>
  /\ lives = observed.before.lives
  /\ ship # NoShip
  /\ ship \in IdsOf(entities)
  /\ objects[ship].active
  /\ \E a \in Killed(observed.kills) : Overlap(ship, a)

\* C38: an update that ends in PLAYING leaves at least one active asteroid; when
\* its collision pass killed the last active asteroid of the level, the same
\* update has advanced the level by one and the table holds the 3 + level active
\* asteroids of the new level, all LARGE
AsteroidsWhilePlaying ==
  [][(observed'.op = "update" /\ currentState' = "PLAYING") =>
       /\ ActiveAfter("ASTEROID") # <<>>
       /\ (/\ observed'.kills # <<>>
           /\ Cardinality(IdsOf(Active("ASTEROID")) \ Killed(observed'.kills))
                + SplitCount * Splits(observed'.kills) = 0)
          => /\ currentLevel' = currentLevel + 1
             /\ Len(ActiveAfter("ASTEROID")) = 3 + currentLevel'
             /\ \A i \in 1..Len(ActiveAfter("ASTEROID")) :
                  /\ objects'[ActiveAfter("ASTEROID")[i]].size = "LARGE"
                  /\ ActiveAfter("ASTEROID")[i] \notin IdsOf(entities)]_vars

\* an update in PLAYING killed the SMALL asteroid that was the only active
\* asteroid left, and ended in PLAYING with five active asteroids on level 2
AsteroidsWhilePlayingWitness ==
  /\ observed.op = "update"
  /\ currentState = "PLAYING"
  /\ observed.before.state = "PLAYING"
  /\ Len(observed.asteroids) = 1
  /\ Len(observed.kills) = 1
  /\ observed.kills[1].size = "SMALL"
  /\ currentLevel = 2
  /\ Len(Active("ASTEROID")) = 5

\* the kills it takes to clear a level and the points they add: 7 and 520 for each
\* of its 3 + level LARGE asteroids
LevelKills(level) == Lineage("LARGE") * (3 + level)
LevelPoints(level) ==
  (Points("LARGE") + SplitCount * Points("MEDIUM")
     + SplitCount * SplitCount * Points("SMALL")) * (3 + level)

\* C39: in a game without restartLevel, the kills made in level N up to and
\* including an update are at most 7 * (3 + N) and the points gained in it at
\* most 520 * (3 + N); the update advances the level exactly when the kills
\* reach 7 * (3 + N), and then the points gained in the level are 520 * (3 + N)
LevelTakesAllKills ==
  [][(observed'.op = "update" /\ ~observed'.tally.restarted) =>
       LET kills == observed'.tally.kills + Len(observed'.kills)
           gained == currentScore' - observed'.tally.score
       IN /\ kills <= LevelKills(currentLevel)
          /\ gained <= LevelPoints(currentLevel)
          /\ currentLevel' # currentLevel <=> kills = LevelKills(currentLevel)
          /\ kills = LevelKills(currentLevel) =>
               /\ gained = LevelPoints(currentLevel)
               /\ currentLevel' = currentLevel + 1
               /\ observed'.kills # <<>>]_vars

\* the update that made the 28th kill of level 1, in a game without restartLevel,
\* brought the score to 2080 and the level to 2
LevelTakesAllKillsWitness ==
  /\ observed.op = "update"
  /\ ~observed.tally.restarted
  /\ observed.before.level = 1
  /\ currentLevel = 2
  /\ observed.tally.kills + Len(observed.kills) = 28
  /\ observed.tally.score = 0
  /\ currentScore = 2080

\* the entity with this id is a bullet of the table
BulletInTable(id) == id \in IdsOf(entities) /\ objects[id].type = "BULLET"

\* the ids a bullet can have: those the world hands out after the ship and the
\* asteroids of level 1
BulletIds == (1 + 3 + 1)..(MotionMaxIds - 1)

====
